---- MODULE Spec2Model ----
(***************************************************************************)
(* A model of the sjpsocket HTTP stack: the synchronous request loop       *)
(* (core.http_client_request_loop), the URL router (core.build_regex_url)  *)
(* and the dispatcher servers.web_server (Spec); the same loop with        *)
(* recv_all's reads and operator interrupts (SpecLoop); the asynchronous   *)
(* server servers.AsyncHttpServer (SpecAsync); the loop that reads in      *)
(* worker processes, core.http_client_request_loop_async (SpecPool);       *)
(* sjpsmp.PipedProcess and PipedProcessPool (SpecProc); one call of        *)
(* core.parse_http_request (SpecParse); and one call of the matcher        *)
(* core.build_regex_url builds (SpecMatch). Each specification runs one    *)
(* component and leaves the variables of the others at rest.               *)
(*                                                                         *)
(* Python strings are sequences of one-character strings; Python values    *)
(* are records [t |-> type tag, v |-> payload]; dicts are functions.       *)
(***************************************************************************)
EXTENDS Integers, Sequences, FiniteSets, TLC

\* ------------------------------------------------------------------ bounds
MaxConns == 2

\* ------------------------------------------------------- Python values
PStr(s) == [t |-> "str", v |-> s]
PInt(n) == [t |-> "int", v |-> n]
PNone == [t |-> "none", v |-> 0]
PList(l) == [t |-> "list", v |-> l]
PDict(d) == [t |-> "dict", v |-> d]
PTuple(l) == [t |-> "tuple", v |-> l]
PStatus(c) == [t |-> "status", v |-> c]

EmptyDict == << >>

\* {**a, **b}
Overlay(a, b) ==
    [k \in (DOMAIN a) \cup (DOMAIN b) |-> IF k \in DOMAIN b THEN b[k] ELSE a[k]]

\* bool(v)
Truthy(x) ==
    CASE x.t = "str" -> x.v # << >>
      [] x.t = "int" -> x.v # 0
      [] x.t = "none" -> FALSE
      [] x.t = "list" -> x.v # << >>
      [] x.t = "tuple" -> x.v # << >>
      [] x.t = "dict" -> DOMAIN x.v # {}
      [] x.t = "status" -> TRUE

Digits == <<"0", "1", "2", "3", "4", "5", "6", "7", "8", "9">>

IsDigit(c) == \E d \in 1..10 : Digits[d] = c

DigitValue(c) == (CHOOSE d \in 1..10 : Digits[d] = c) - 1

RECURSIVE IntToStr(_)
IntToStr(n) ==
    IF n < 10 THEN <<Digits[n + 1]>>
    ELSE IntToStr(n \div 10) \o <<Digits[(n % 10) + 1]>>

RECURSIVE StrToInt(_)
StrToInt(s) ==
    IF Len(s) = 1 THEN DigitValue(s[1])
    ELSE 10 * StrToInt(SubSeq(s, 1, Len(s) - 1)) + DigitValue(s[Len(s)])

RECURSIVE JoinInts(_, _)
JoinInts(l, sep) ==
    IF l = << >> THEN << >>
    ELSE IF Len(l) = 1 THEN IntToStr(l[1])
    ELSE IntToStr(l[1]) \o sep \o JoinInts(Tail(l), sep)

\* str(v), for the value shapes the handlers of the model return
Str(x) ==
    CASE x.t = "str" -> x.v
      [] x.t = "int" -> IntToStr(x.v)
      [] x.t = "none" -> <<"N", "o", "n", "e">>
      [] x.t = "list" -> <<"[">> \o JoinInts(x.v, <<",", " ">>) \o <<"]">>
      [] x.t = "tuple" -> <<"(">> \o JoinInts(x.v, <<",", " ">>) \o <<")">>
      [] x.t = "status" -> IntToStr(x.v)
      [] x.t = "dict" -> <<"{", "}">>

\* json.dumps(v, indent=2) of a list of ints or of an empty dict
Dumps(x) ==
    IF x.t = "list" /\ x.v # << >>
    THEN <<"[", "\n", " ", " ">> \o JoinInts(x.v, <<",", "\n", " ", " ">>) \o <<"\n", "]">>
    ELSE IF x.t = "list" THEN <<"[", "]">>
    ELSE <<"{", "}">>

\* ------------------------------------------------------------- strings
RECURSIVE Split(_, _)
\* str.split(sep) for a one-character separator
Split(s, sep) ==
    IF \E i \in 1..Len(s) : s[i] = sep
    THEN LET i == CHOOSE i \in 1..Len(s) :
                      s[i] = sep /\ \A j \in 1..(i - 1) : s[j] # sep
         IN  <<SubSeq(s, 1, i - 1)>> \o Split(SubSeq(s, i + 1, Len(s)), sep)
    ELSE <<s>>

StartsWith(s, p) == Len(s) >= Len(p) /\ SubSeq(s, 1, Len(p)) = p

\* the characters \w matches, among the characters of the model
WordChars ==
    {"a", "b", "c", "e", "f", "i", "k", "m", "n", "o", "p", "r", "s", "t",
     "u", "v", "w", "x", "y", "z", "0", "1", "2", "5", "7"}

\* ------------------------------------------------------------- router
\* The compiled pattern is a sequence of tokens: a literal character, "."
\* (any character but a newline) or a named group (?P<name>\w+).
Lit(c) == [k |-> "lit", a |-> <<c>>]
Dot == [k |-> "dot", a |-> << >>]
Group(name) == [k |-> "var", a |-> name]

\* the regular expression a literal piece of pattern text denotes
RegexText(s) == [i \in 1..Len(s) |-> IF s[i] = "." THEN Dot ELSE Lit(s[i])]

RECURSIVE RegexParts(_, _)
RegexParts(parts, prefix) ==
    IF parts = << >> THEN << >>
    ELSE LET part == Head(parts)
             rest == RegexParts(Tail(parts), prefix)
         IN  IF part = << >> THEN rest
             ELSE IF StartsWith(part, <<prefix>>)
             THEN <<Lit("/"), Group(Tail(part))>> \o rest
             ELSE <<Lit("/")>> \o RegexText(part) \o rest

\* build_regex_url(url, prefix): the tokens between '^' and '$'
build_regex_url(url, prefix) ==
    IF Len(url) = 1 THEN RegexText(url)
    ELSE RegexParts(Split(url, "/"), prefix)

NoMatch == [ok |-> FALSE, groups |-> EmptyDict]

\* length of the longest prefix of s made of word characters
RECURSIVE WordRun(_)
WordRun(s) ==
    IF s # << >> /\ Head(s) \in WordChars THEN 1 + WordRun(Tail(s)) ELSE 0

Drop(s, n) == SubSeq(s, n + 1, Len(s))

RECURSIVE MatchTokens(_, _, _)
\* re.match of '^' tokens '$' against path; '$' also matches before a final newline
MatchTokens(re, path, groups) ==
    IF re = << >>
    THEN IF path = << >> \/ path = <<"\n">>
         THEN [ok |-> TRUE, groups |-> groups]
         ELSE NoMatch
    ELSE LET tok == Head(re) IN
         CASE tok.k = "lit" ->
                IF path # << >> /\ <<Head(path)>> = tok.a
                THEN MatchTokens(Tail(re), Tail(path), groups)
                ELSE NoMatch
           [] tok.k = "dot" ->
                IF path # << >> /\ Head(path) # "\n"
                THEN MatchTokens(Tail(re), Tail(path), groups)
                ELSE NoMatch
           [] tok.k = "var" ->
                LET run == WordRun(path)
                    take(n) == MatchTokens(Tail(re), Drop(path, n),
                                           Overlay(groups, [x \in {tok.a} |-> PStr(SubSeq(path, 1, n))]))
                    good == {n \in 1..run : take(n).ok}
                IN  IF good = {} THEN NoMatch
                    ELSE take(CHOOSE n \in good : \A m \in good : m <= n)

\* build_regex_url(url).match(path): .ok and .groups (match.groupdict())
Match(url, path) == MatchTokens(build_regex_url(url, ":"), path, EmptyDict)

\* pathlib.Path(url).name: the last component, "." components and empty ones dropped
PathName(url) ==
    LET parts == SelectSeq(Split(url, "/"), LAMBDA p : p # << >> /\ p # <<".">>)
    IN  IF parts = << >> THEN << >> ELSE parts[Len(parts)]

\* pathlib.Path(url).suffix
PathSuffix(url) ==
    LET name == PathName(url)
        dots == {i \in 1..Len(name) : name[i] = "."}
    IN  IF dots = {} THEN << >>
        ELSE LET i == CHOOSE i \in dots : \A j \in dots : j <= i
             IN  IF 1 < i /\ i < Len(name) THEN SubSeq(name, i, Len(name)) ELSE << >>

\* is_file_url(url)
is_file_url(url) == PathSuffix(url) # << >>

\* ------------------------------------------------- handlers and routes
\* inspect.Parameter: name, annotation ("empty" when there is none), kind
\* ("pos": positional-or-keyword, "varkw": **name), required (no default)
Param(name, annotation) ==
    [name |-> name, annotation |-> annotation, kind |-> "pos", required |-> TRUE]
VarKw(name) ==
    [name |-> name, annotation |-> "empty", kind |-> "varkw", required |-> FALSE]

\* A callable: its signature and whether its body is the application's
\* ("user") or one of View's unimplemented verbs ("base").
Callable(params, body) == [params |-> params, body |-> body]

\* mvc.View.get/post/...: def verb(self, **parameters): raise NotImplementedError
ViewBaseMethod == Callable(<<VarKw(<<"p", "a", "r", "a", "m", "e", "t", "e", "r", "s">>)>>, "base")

NoCallable == Callable(<< >>, "none")

Verbs == {"get", "post", "put", "delete", "head"}

\* request['method'].lower()
Lower(method) ==
    CASE method = "GET" -> "get"
      [] method = "POST" -> "post"
      [] method = "PUT" -> "put"
      [] method = "DELETE" -> "delete"
      [] method = "HEAD" -> "head"

FunctionHandler(params) ==
    [kind |-> "function", fn |-> Callable(params, "user"), template |-> << >>,
     methods |-> [m \in Verbs |-> NoCallable], value |-> PNone]

\* a subclass of mvc.View: template is the class attribute (<< >> for None),
\* methods maps every verb to the subclass's method or to View's
ViewHandler(template, methods) ==
    [kind |-> "view", fn |-> NoCallable, template |-> template,
     methods |-> [m \in Verbs |-> IF m \in DOMAIN methods THEN methods[m] ELSE ViewBaseMethod],
     value |-> PNone]

\* a route whose handler is not callable
ValueHandler(value) ==
    [kind |-> "value", fn |-> NoCallable, template |-> << >>,
     methods |-> [m \in Verbs |-> NoCallable], value |-> value]

Route(url, handler) == [url |-> url, handler |-> handler]

\* The route table handed to web_server, in declaration order.
urls ==
    << Route(<<"/">>, FunctionHandler(<<Param(<<"r">>, "empty")>>)),
       Route(<<"/", "u", "/", ":", "i">>,
             FunctionHandler(<<Param(<<"r">>, "empty"), Param(<<"i">>, "int")>>)),
       Route(<<"/", "u", "/", "m", "e">>, FunctionHandler(<<Param(<<"r">>, "empty")>>)),
       Route(<<"/", "p", "/", ":", "i">>,
             FunctionHandler(<<Param(<<"r">>, "empty"), Param(<<"i">>, "int"),
                               Param(<<"n">>, "str")>>)),
       Route(<<"/", "v">>,
             ViewHandler(<<"t">>, [m \in {"post"} |-> Callable(<<Param(<<"n">>, "empty")>>, "user")])),
       Route(<<"/", "w">>,
             ViewHandler(<< >>, [m \in {"post"} |-> Callable(<<Param(<<"n">>, "empty")>>, "user")])),
       Route(<<"/", "e">>, ViewHandler(<<"e">>, << >>)),
       Route(<<"/", "m">>, ViewHandler(<<"m">>, << >>)),
       Route(<<"/", "c">>, ValueHandler(PStr(<<"o", "k">>))),
       Route(<<"/", "a", ".", "b">>, FunctionHandler(<<Param(<<"r">>, "empty")>>)),
       Route(<<"/", "k", "/", ":", "i">>,
             FunctionHandler(<<Param(<<"r">>, "empty"), VarKw(<<"k", "w">>)>>)) >>

\* web_server's static_directory argument (its default)
static_directory == <<"s", "t", "a", "t", "i", "c">>

\* the files below root_directory: request path |-> content
StaticFiles ==
    [p \in {<<"/", "s", "t", "a", "t", "i", "c", "/", "f", ".", "t", "x", "t">>} |-> <<"F">>]

\* the files below root_directory/template_directory: name |-> content
TemplateFiles ==
    [n \in {<<"t">>, <<"e">>} |-> IF n = <<"t">> THEN <<"T">> ELSE << >>]

TextPlain == <<"t", "e", "x", "t", "/", "p", "l", "a", "i", "n">>

\* get_mime_type(path): mimetypes.guess_type(path)[0], None when unknown
get_mime_type(path) ==
    IF PathSuffix(path) = <<".", "t", "x", "t">> THEN PStr(TextPlain) ELSE PNone

\* header names
Connection == <<"C", "o", "n", "n", "e", "c", "t", "i", "o", "n">>
ContentLength == <<"C", "o", "n", "t", "e", "n", "t", "-", "L", "e", "n", "g", "t", "h">>
ContentType == <<"C", "o", "n", "t", "e", "n", "t", "-", "T", "y", "p", "e">>
Close == <<"c", "l", "o", "s", "e">>

\* http.HTTPStatus
OK == 200
NOT_FOUND == 404
INTERNAL_SERVER_ERROR == 500
NOT_IMPLEMENTED == 501
HTTPStatusCodes == {200, 201, 303, 404, 500, 501}

\* ---------------------------------------------------------- dispatcher
NoError == "none"

\* what the application's handler body does once it has been entered
Returns(value) == [kind |-> "return", value |-> value, exc |-> NoError]
Raises(exc) == [kind |-> "raise", value |-> PNone, exc |-> exc]

\* param.annotation(value) for the annotations int and str
Coerce(annotation, value) ==
    IF annotation = "int"
    THEN IF value.t = "int" THEN [error |-> NoError, value |-> value]
         ELSE IF value.t = "str"
         THEN IF value.v # << >> /\ \A i \in 1..Len(value.v) : IsDigit(value.v[i])
              THEN [error |-> NoError, value |-> PInt(StrToInt(value.v))]
              ELSE [error |-> "ValueError", value |-> value]
         ELSE [error |-> "TypeError", value |-> value]
    ELSE [error |-> NoError, value |-> PStr(Str(value))]

\* the loop over func_sig.parameters that fills function_kwargs; error is the
\* exception param.annotation(value) raises at the first parameter that fails
BindParameters(params, client_parameters) ==
    LET bound == {i \in 1..Len(params) : params[i].name \in DOMAIN client_parameters}
        conv(i) == IF params[i].annotation = "empty"
                   THEN [error |-> NoError, value |-> client_parameters[params[i].name]]
                   ELSE Coerce(params[i].annotation, client_parameters[params[i].name])
        bad == {i \in bound : conv(i).error # NoError}
    IN  IF bad # {}
        THEN [error |-> conv(CHOOSE i \in bad : \A j \in bad : i <= j).error,
              kwargs |-> EmptyDict]
        ELSE [error |-> NoError,
              kwargs |-> [name \in {params[i].name : i \in bound} |->
                            conv(CHOOSE i \in bound : params[i].name = name).value]]

\* function(*args, **kwargs) raises TypeError before the body runs: too many
\* positional arguments, a keyword naming a parameter already filled
\* positionally, an unexpected keyword, or a required parameter left unfilled
CallTypeError(params, nargs, kwargs) ==
    LET pos == {i \in 1..Len(params) : params[i].kind = "pos"}
        haskw == \E i \in 1..Len(params) : params[i].kind = "varkw"
        posname(name) == \E i \in pos : params[i].name = name
        index(name) == CHOOSE i \in pos : params[i].name = name
    IN  \/ nargs > Cardinality(pos)
        \/ \E name \in DOMAIN kwargs :
              IF posname(name) THEN index(name) <= nargs ELSE ~haskw
        \/ \E i \in pos : /\ i > nargs
                          /\ params[i].required
                          /\ params[i].name \notin DOMAIN kwargs

Triple(status, headers, body) == PTuple(<<status, PDict(headers), PStr(body)>>)

\* the dispatch ended without a call: error is the exception that leaves
\* web_server (NoError when there is none), body the template read so far
NoInvoke(error, body, client_parameters) ==
    [error |-> error, template |-> body, client_parameters |-> client_parameters,
     calls |-> << >>, entered |-> FALSE, exc |-> NoError, handler_response |-> PNone]

\* function(*function_args, **function_kwargs) inside try/except: typeerror
\* tells that the call itself fails, otherwise the body is entered and does
\* what View's unimplemented verb or the application (outcome) does.
\* error is the exception that leaves web_server.
InvokeCall(route, function, function_args, body, client_parameters, kwargs, typeerror, outcome) ==
    LET exc == IF typeerror THEN "TypeError"
               ELSE IF function.body = "base" THEN "NotImplementedError"
               ELSE outcome.exc
        res == [error |-> NoError, template |-> body,
                client_parameters |-> client_parameters,
                calls |-> IF typeerror THEN << >>
                          ELSE <<[route |-> route, args |-> function_args, kwargs |-> kwargs]>>,
                entered |-> ~typeerror, exc |-> exc, handler_response |-> PNone]
    IN  IF exc = NoError THEN [res EXCEPT !.handler_response = outcome.value]
        ELSE IF exc = "TypeError"
        THEN [res EXCEPT !.handler_response =
                            Triple(PStatus(INTERNAL_SERVER_ERROR), EmptyDict, << >>)]
        ELSE IF exc = "NotImplementedError"
        THEN IF body = << >> THEN [res EXCEPT !.error = exc]
             ELSE [res EXCEPT !.handler_response = Triple(PStatus(OK), EmptyDict, body)]
        ELSE [res EXCEPT !.error = exc]

\* the binding loop has run: bind.error is the exception of a failed coercion,
\* which nothing catches; otherwise the call is made with bind.kwargs
InvokeBound(route, function, function_args, body, client_parameters, bind, outcome) ==
    IF bind.error # NoError THEN NoInvoke(bind.error, body, client_parameters)
    ELSE InvokeCall(route, function, function_args, body, client_parameters, bind.kwargs,
                    CallTypeError(function.params, Len(function_args), bind.kwargs), outcome)

\* the callable is resolved: function and function_args; the template named by
\* a view is read into body (FileNotFoundError when the file does not exist)
InvokeResolved(route, handler, function, function_args, client_parameters, outcome) ==
    IF handler.kind = "view" /\ handler.template # << >>
    THEN IF handler.template \in DOMAIN TemplateFiles
         THEN InvokeBound(route, function, function_args, TemplateFiles[handler.template],
                          client_parameters,
                          BindParameters(function.params, client_parameters), outcome)
         ELSE NoInvoke("FileNotFoundError", << >>, client_parameters)
    ELSE InvokeBound(route, function, function_args, << >>, client_parameters,
                     BindParameters(function.params, client_parameters), outcome)

\* "Handle the handler" for the given handler: a function is called with the
\* request, a view is instantiated and its method for the verb is called, any
\* other value answers with its string form
InvokeHandler(route, handler, request, client_parameters, outcome) ==
    IF handler.kind = "value"
    THEN [NoInvoke(NoError, << >>, client_parameters) EXCEPT
            !.handler_response = Triple(PStatus(OK), EmptyDict, Str(handler.value))]
    ELSE IF handler.kind = "function"
    THEN InvokeResolved(route, handler, handler.fn, <<request>>, client_parameters, outcome)
    ELSE InvokeResolved(route, handler, handler.methods[Lower(request.method)], << >>,
                        client_parameters, outcome)

\* "Handle the handler" of the matched route
Invoke(route, request, client_parameters, outcome) ==
    InvokeHandler(route, urls[route].handler, request, client_parameters, outcome)

\* Normalize answering 404 instead of 501 for a falsy result
NormalizeFalsy404(handler_response, body, headers) ==
    LET hr == handler_response
        triple == hr.t = "tuple" /\ Len(hr.v) = 3
    IN  IF body # << >>
        THEN IF triple
             THEN [status |-> hr.v[1], headers |-> Overlay(headers, hr.v[2].v),
                   body |-> IF Truthy(hr.v[3]) THEN hr.v[3] ELSE PStr(body)]
             ELSE IF Truthy(hr)
             THEN [status |-> PStatus(OK), headers |-> headers, body |-> hr]
             ELSE [status |-> PStatus(OK), headers |-> headers, body |-> PStr(body)]
        ELSE IF triple
             THEN [status |-> hr.v[1], headers |-> Overlay(headers, hr.v[2].v),
                   body |-> hr.v[3]]
             ELSE [status |-> IF Truthy(hr) THEN PStatus(OK) ELSE PStatus(NOT_FOUND),
                   headers |-> headers, body |-> PStr(Str(hr))]

\* "Handle the handler response": body is '' or the template, headers the defaults
Normalize(handler_response, body, headers) ==
    LET hr == handler_response
        triple == hr.t = "tuple" /\ Len(hr.v) = 3
    IN  IF body # << >>
        THEN IF triple
             THEN [status |-> hr.v[1], headers |-> Overlay(headers, hr.v[2].v),
                   body |-> IF Truthy(hr.v[3]) THEN hr.v[3] ELSE PStr(body)]
             ELSE IF Truthy(hr)
             THEN [status |-> PStatus(OK), headers |-> headers, body |-> hr]
             ELSE [status |-> PStatus(OK), headers |-> headers, body |-> PStr(body)]
        ELSE IF triple
             THEN [status |-> hr.v[1], headers |-> Overlay(headers, hr.v[2].v),
                   body |-> hr.v[3]]
             ELSE [status |-> IF Truthy(hr) THEN PStatus(OK) ELSE PStatus(NOT_IMPLEMENTED),
                   headers |-> headers, body |-> PStr(Str(hr))]

\* "Final touches to the response" and build_http_response: a list or dict
\* body is dumped, Content-Length is set, the status must be a known one.
\* error is the exception raised (len() or str + body of a body that is no
\* str; get_http_status_code_phrase of an unknown code).
Finish(status, headers, body) ==
    LET dumped == IF body.t \in {"list", "dict"} THEN PStr(Dumps(body)) ELSE body
        text == IF dumped.t = "str" THEN dumped.v ELSE << >>
        error == IF dumped.t # "str" THEN "TypeError"
                 ELSE IF status.t # "status" /\ status.v \notin HTTPStatusCodes
                 THEN "Exception"
                 ELSE NoError
    IN  [error |-> error, code |-> status.v,
         headers |-> Overlay(headers, [k \in {ContentLength} |-> PInt(Len(text))]),
         body |-> text]

DefaultHeaders == [k \in {Connection} |-> PStr(Close)]

\* FindRoute taking the last matching route instead of the first
FindRouteLast(path) ==
    LET hits == {i \in 1..Len(urls) : Match(urls[i].url, path).ok}
    IN  IF hits = {} THEN 0 ELSE CHOOSE i \in hits : \A j \in hits : j <= i

\* the first route, in declaration order, whose pattern matches; 0 when none does
FindRoute(path) ==
    LET hits == {i \in 1..Len(urls) : Match(urls[i].url, path).ok}
    IN  IF hits = {} THEN 0 ELSE CHOOSE i \in hits : \A j \in hits : i <= j

\* NoRouteResponse answering 200 as the single-page server does
NoRouteResponseOK == [status |-> PStatus(OK), headers |-> DefaultHeaders, body |-> PStr(<< >>)]

\* the response of the for-else branch: no route matched
NoRouteResponse == [status |-> PStatus(NOT_FOUND), headers |-> DefaultHeaders, body |-> PStr(<< >>)]

IsStaticPath(path) ==
    is_file_url(path) /\ StartsWith(path, <<"/">> \o static_directory \o <<"/">>)

\* "Serve static file"
StaticResponse(path) ==
    IF path \in DOMAIN StaticFiles
    THEN [status |-> PStatus(OK),
          headers |-> Overlay(DefaultHeaders, [k \in {ContentType} |-> get_mime_type(path)]),
          body |-> PStr(StaticFiles[path])]
    ELSE [status |-> PStatus(NOT_FOUND), headers |-> DefaultHeaders, body |-> PStr(<< >>)]

\* client_parameters = {**match.groupdict(), **request['body']}
ClientParameters(route, request) ==
    Overlay(Match(urls[route].url, request.path).groups, request.body.v)

\* the body of "if (match := regex.match(request['path']))" up to the handler's
\* response; a body that is no mapping makes the ** merge raise TypeError
Dispatch(route, request, outcome) ==
    IF route = 0 THEN NoInvoke(NoError, << >>, EmptyDict)
    ELSE IF request.body.t # "dict" THEN NoInvoke("TypeError", << >>, EmptyDict)
    ELSE Invoke(route, request, ClientParameters(route, request), outcome)

\* status, headers and body before the final touches
Response(static, route, path, inv) ==
    IF static THEN StaticResponse(path)
    ELSE IF route = 0 \/ inv.error # NoError THEN NoRouteResponse
    ELSE Normalize(inv.handler_response, inv.template, DefaultHeaders)

FinishResponse(resp) == Finish(resp.status, resp.headers, resp.body)

\* what one iteration did. raised: an exception left web_server and nothing
\* was sent; otherwise code, headers and body were sent to the client.
Iteration(request, static, route, inv, fin) ==
    [request |-> request, static |-> static, route |-> route,
     client_parameters |-> inv.client_parameters, template |-> inv.template,
     calls |-> inv.calls, entered |-> inv.entered, exc |-> inv.exc,
     handler_response |-> inv.handler_response,
     raised |-> inv.error # NoError \/ fin.error # NoError,
     error |-> IF inv.error # NoError THEN inv.error ELSE fin.error,
     code |-> fin.code, headers |-> fin.headers, body |-> fin.body]

Respond(request, static, route, inv) ==
    Iteration(request, static, route, inv,
              FinishResponse(Response(static, route, request.path, inv)))

Routed(request, static, route, outcome) ==
    Respond(request, static, route, Dispatch(route, request, outcome))

\* One iteration of web_server's loop body for a yielded request; outcome is
\* what the application's handler does if it is entered.
web_server(request, outcome) ==
    Routed(request, IsStaticPath(request.path),
           IF IsStaticPath(request.path) THEN 0 ELSE FindRoute(request.path), outcome)

\* ------------------------------------------------------- the inputs
Methods == {"GET", "POST"}

Paths ==
    { <<"/">>,
      <<"/", "u", "/", "1">>,
      <<"/", "u", "/", "m", "e">>,
      <<"/", "u", "/", "1", "\n">>,
      <<"/", "p", "/", "1">>,
      <<"/", "v">>,
      <<"/", "w">>,
      <<"/", "e">>,
      <<"/", "m">>,
      <<"/", "c">>,
      <<"/", "a", ".", "b">>,
      <<"/", "a", "x", "b">>,
      <<"/", "k", "/", "1">>,
      <<"/", "z", "z">>,
      <<"/", "u">>,
      <<"/", "x", ".", "y">>,
      <<"/", "s", "t", "a", "t", "i", "c", "/", "f", ".", "t", "x", "t">>,
      <<"/", "s", "t", "a", "t", "i", "c", "/", "x", ".", "y">> }

\* request['body'] as parse_http_body leaves it: a dict of fields, or whatever
\* json.loads returned (a list, a number)
Field(name, value) == [k \in {name} |-> PStr(value)]

Bodies ==
    { PDict(EmptyDict),
      PDict(Field(<<"i">>, <<"2">>)),
      PDict(Field(<<"i">>, <<"a">>)),
      PDict(Field(<<"n">>, <<"x">>)),
      PDict(Field(<<"r">>, <<"x">>)),
      PDict(Field(<<"z">>, <<"x">>)),
      PDict(Field(<<"k", "w">>, <<"x">>)),
      PList(<<1>>),
      PInt(5) }

Requests == [method : Methods, path : Paths, body : Bodies]

NoRequest == [method |-> "", path |-> << >>, body |-> PNone]

\* the character U+00E9, one character of a Python str
EAcute == "e-acute"

\* what a handler body of the application may return
ResultValues ==
    { PStr(<<"o", "k">>), PStr(<< >>), PStr(<<"n", EAcute>>), PNone, PInt(0), PInt(7),
      PList(<< >>), PList(<<1>>), PTuple(<<1, 2>>),
      Triple(PStatus(201), Field(<<"X">>, <<"y">>), <<"h", "i">>),
      Triple(PInt(201), EmptyDict, <<"h", "i">>),
      Triple(PInt(999), EmptyDict, <<"h", "i">>),
      Triple(PStatus(303), Field(ContentLength, <<"9">>), << >>),
      PTuple(<<PStatus(OK), PDict(EmptyDict), PList(<<1, 2>>)>>) }

\* what it may raise
Raisable == {"ValueError", "TypeError", "NotImplementedError", "KeyError"}

Outcomes == {Returns(v) : v \in ResultValues} \cup {Raises(e) : e \in Raisable}

\* ---------------------------------------------------- the serving loop
VARIABLES
    pc,       \* where the loop stands: "poll", "recv", "serve", "close", "crashed"
    conns,    \* the accepted sockets, in order: open, requests parsed, responses sent
    request,  \* the request yielded to web_server
    last      \* what web_server did with it (web_server(request, outcome))

\* http_client_request_loop with recv_all's reads and operator interrupts
VARIABLES
    lpc,        \* "select", "recv_select", "recv", "yielded", "close", "ended", "raised"
    lconns,     \* the accepted sockets, in order
    backlog,    \* connections waiting in the listening socket's queue
    peer,       \* the client of the current socket: what it sends, what it sent
    buf,        \* bytes received by the kernel for the current socket, unread
    data,       \* recv_all's local `data`
    interrupts  \* KeyboardInterrupts delivered so far

\* servers.AsyncHttpServer
VARIABLES
    handler,    \* self.request_handler: "default", "returns" or "raises"
    tasks       \* one handle_client task per accepted connection

\* http_client_request_loop_async
VARIABLES
    ppc,        \* "select", "scan", "yielded", "ended", "raised"
    clients,    \* the local list `clients`: ids of (socket, worker) pairs
    idx,        \* position of the iteration `for c, p in clients`
    pconns,     \* the accepted sockets with their workers, in order
    pbacklog,   \* connections waiting in the listening socket's queue
    pinterrupts, \* KeyboardInterrupts delivered so far
    due         \* the pairs whose worker had exited when the running tick began

\* sjpsmp.PipedProcess objects of one PipedProcessPool
VARIABLES
    procs,      \* identifier -> the process, the pipe and what was called
    called,     \* the last call made: operation, returned value or exception
    scope       \* the `with pool:` block: "out" before, "in", "left" after

webVars == <<pc, conns, request, last>>
loopVars == <<lpc, lconns, backlog, peer, buf, data, interrupts>>
asyncVars == <<handler, tasks>>
poolVars == <<ppc, clients, idx, pconns, pbacklog, pinterrupts, due>>
procVars == <<procs, called, scope>>

\* one call of core.parse_http_request
VARIABLES
    preq,       \* what the request was built from: method, target, headers ...
    pdata,      \* the bytes handed to parse_http_request
    presult     \* what the call gave: the dict returned or the exception

\* one call of core.build_regex_url(url).match(path)
VARIABLES
    murl,       \* the path pattern of a route
    mpath,      \* the path of a request
    mresult     \* what compiling and matching gave

parseVars == <<preq, pdata, presult>>
matchVars == <<murl, mpath, mresult>>

vars == <<webVars, loopVars, asyncVars, poolVars, procVars, parseVars, matchVars>>

\* the client of no socket
NoPeer == [msg |-> << >>, sent |-> 0, eof |-> FALSE]

\* no call was made
NoCall == [op |-> "", id |-> 0, raised |-> "", value |-> "", had |-> FALSE, before |-> << >>]

\* a component that is not running in the specification at hand
LoopOff ==
    /\ lpc = "off" /\ lconns = << >> /\ backlog = 0 /\ peer = NoPeer
    /\ buf = << >> /\ data = << >> /\ interrupts = 0
AsyncOff == handler = "off" /\ tasks = << >>
PoolOff ==
    /\ ppc = "off" /\ clients = << >> /\ idx = 0 /\ pconns = << >>
    /\ pbacklog = 0 /\ pinterrupts = 0 /\ due = {}
ProcOff == procs = << >> /\ called = NoCall /\ scope = "off"
ParseOff == preq = << >> /\ pdata = << >> /\ presult = << >>
MatchOff == murl = << >> /\ mpath = << >> /\ mresult = << >>

NoDispatch ==
    [request |-> NoRequest, static |-> FALSE, route |-> 0,
     client_parameters |-> EmptyDict, template |-> << >>,
     calls |-> << >>, entered |-> FALSE, exc |-> NoError,
     handler_response |-> PNone,
     raised |-> FALSE, error |-> NoError,
     code |-> 0, headers |-> EmptyDict, body |-> << >>]

WebOff == pc = "off" /\ conns = << >> /\ request = NoRequest /\ last = NoDispatch

Init ==
    /\ pc = "poll"
    /\ conns = << >>
    /\ request = NoRequest
    /\ last = NoDispatch
    /\ LoopOff /\ AsyncOff /\ PoolOff /\ ProcOff /\ ParseOff /\ MatchOff

cur == Len(conns)

\* client_loop: select reports the listening socket readable, accept()
Accept ==
    /\ pc = "poll"
    /\ Len(conns) < MaxConns
    /\ conns' = Append(conns, [open |-> TRUE, parsed |-> 0, sent |-> 0])
    /\ pc' = "recv"
    /\ UNCHANGED <<request, last>>
    /\ UNCHANGED <<loopVars, asyncVars, poolVars, procVars, parseVars, matchVars>>

\* http_client_request_loop: recv_all returned b'', nothing is yielded
RecvNothing ==
    /\ pc = "recv"
    /\ pc' = "close"
    /\ UNCHANGED <<conns, request, last>>
    /\ UNCHANGED <<loopVars, asyncVars, poolVars, procVars, parseVars, matchVars>>

\* http_client_request_loop: recv_all returned data, the parsed request is yielded
RecvRequest ==
    /\ pc = "recv"
    /\ \E req \in Requests : request' = req
    /\ conns' = [conns EXCEPT ![cur].parsed = @ + 1]
    /\ pc' = "serve"
    /\ UNCHANGED last
    /\ UNCHANGED <<loopVars, asyncVars, poolVars, procVars, parseVars, matchVars>>

\* web_server's loop body: the response is sent, or an exception leaves web_server
Serve ==
    /\ pc = "serve"
    /\ \E outcome \in Outcomes :
          LET r == web_server(request, outcome) IN
          /\ last' = r
          /\ IF r.raised
             THEN pc' = "crashed" /\ UNCHANGED conns
             ELSE pc' = "close" /\ conns' = [conns EXCEPT ![cur].sent = @ + 1]
    /\ UNCHANGED request
    /\ UNCHANGED <<loopVars, asyncVars, poolVars, procVars, parseVars, matchVars>>

\* http_client_request_loop resumes after the yield: client.close()
CloseClient ==
    /\ pc = "close"
    /\ conns' = [conns EXCEPT ![cur].open = FALSE]
    /\ request' = NoRequest
    /\ last' = NoDispatch
    /\ pc' = "poll"
    /\ UNCHANGED <<loopVars, asyncVars, poolVars, procVars, parseVars, matchVars>>

Next == Accept \/ RecvNothing \/ RecvRequest \/ Serve \/ CloseClient

Spec == Init /\ [][Next]_vars


\* ------------------------------------------------------------ properties
\* a request has been dispatched and `last` describes what happened
Dispatched == last.request.method # ""

LastPath == last.request.path
LastHandler == urls[last.route].handler

\* the callable the dispatcher resolves for the matched route
LastFunction ==
    IF LastHandler.kind = "function" THEN LastHandler.fn
    ELSE LastHandler.methods[Lower(last.request.method)]

Matches(i, path) == Match(urls[i].url, path).ok

\* the handler body was entered and raised something other than TypeError
\* (answered 500) and NotImplementedError (the unimplemented-verb condition)
HandlerRaised ==
    /\ Dispatched
    /\ last.entered
    /\ last.exc \notin {NoError, "TypeError", "NotImplementedError"}

\* C1: any exception a matched handler raises while it is invoked becomes a
\* 500 response on that connection and the loop keeps serving.
C1_HandlerExceptionBecomes500 ==
    HandlerRaised => /\ pc # "crashed"
                     /\ ~last.raised
                     /\ last.code = INTERNAL_SERVER_ERROR

\* a bound parameter with a declared int type whose raw value is not numeric
CoercionFails ==
    /\ Dispatched
    /\ last.route # 0
    /\ last.request.body.t = "dict"
    /\ LastHandler.kind # "value"
    /\ \E i \in 1..Len(LastFunction.params) :
          LET p == LastFunction.params[i] IN
          /\ p.annotation = "int"
          /\ p.name \in DOMAIN last.client_parameters
          /\ last.client_parameters[p.name].t = "str"
          /\ \E k \in 1..Len(last.client_parameters[p.name].v) :
                ~IsDigit(last.client_parameters[p.name].v[k])

\* C2: a value that cannot be coerced to the parameter's declared type gives
\* a 500 response and the loop continues.
C2_CoercionFailureIs500 ==
    CoercionFails => /\ pc # "crashed"
                     /\ ~last.raised
                     /\ last.code = INTERNAL_SERVER_ERROR

\* the names the request supplies: path variables and body fields
SuppliedNames ==
    (DOMAIN Match(urls[last.route].url, LastPath).groups)
        \cup (IF last.request.body.t = "dict" THEN DOMAIN last.request.body.v ELSE {})

\* the resolved callable requires a parameter the request does not supply
MissingRequired ==
    /\ Dispatched
    /\ last.route # 0
    /\ LastHandler.kind # "value"
    /\ \E i \in 1..Len(LastFunction.params) :
          /\ LastFunction.params[i].required
          /\ (LastHandler.kind = "function" => i > 1)
          /\ LastFunction.params[i].name \notin SuppliedNames

\* C3: a required parameter found neither in the path variables nor in the
\* body gives a 500 response with empty body and the loop continues.
C3_MissingParameterIs500 ==
    MissingRequired => /\ pc # "crashed"
                       /\ ~last.raised
                       /\ last.code = INTERNAL_SERVER_ERROR
                       /\ last.body = << >>

\* C4: a request path that matches no pattern and is no static-file path is
\* answered 404 with an empty body, and no handler is invoked.
C4_NoRouteIs404 ==
    (/\ Dispatched
     /\ ~IsStaticPath(LastPath)
     /\ \A i \in 1..Len(urls) : ~Matches(i, LastPath))
    => /\ ~last.raised
       /\ pc = "close"
       /\ last.code = NOT_FOUND
       /\ last.body = << >>
       /\ last.calls = << >>
       /\ ~last.entered

C4_Witness ==
    /\ pc = "close"
    /\ LastPath = <<"/", "z", "z">>
    /\ last.route = 0
    /\ last.code = NOT_FOUND

\* C5: routes are tried in declaration order and only the handler of the first
\* pattern that matches the path is invoked, never a later one that also matches.
C5_FirstMatchWins ==
    Dispatched =>
       /\ Len(last.calls) <= 1
       /\ \A k \in 1..Len(last.calls) :
             /\ last.calls[k].route = last.route
             /\ Matches(last.calls[k].route, LastPath)
             /\ \A j \in 1..(last.calls[k].route - 1) : ~Matches(j, LastPath)
       /\ (~IsStaticPath(LastPath) /\ \E i \in 1..Len(urls) : Matches(i, LastPath))
             => /\ last.route \in 1..Len(urls)
                /\ Matches(last.route, LastPath)
                /\ \A j \in 1..(last.route - 1) : ~Matches(j, LastPath)

\* /u/me matches both /u/:i (second route) and /u/me (third); the second is called
C5_Witness ==
    /\ pc = "close"
    /\ LastPath = <<"/", "u", "/", "m", "e">>
    /\ Matches(2, LastPath) /\ Matches(3, LastPath)
    /\ Len(last.calls) = 1
    /\ last.calls[1].route = 2

\* C6: the binding mapping is the path variables overlaid by the body's
\* fields; a body that is no mapping leaves the path variables alone and
\* dispatch still proceeds.
C6_BodyOverlaysPath ==
    (Dispatched /\ last.route # 0) =>
       IF last.request.body.t = "dict"
       THEN last.client_parameters =
               Overlay(Match(urls[last.route].url, LastPath).groups, last.request.body.v)
       ELSE /\ pc # "crashed"
            /\ ~last.raised
            /\ last.client_parameters = Match(urls[last.route].url, LastPath).groups

\* the matched handler is a view whose method for the verb is View's own
UnimplementedVerb ==
    /\ Dispatched
    /\ last.route # 0
    /\ LastHandler.kind = "view"
    /\ LastFunction.body = "base"

\* C7: an unimplemented verb of a view answers 200 with the template body
\* when the view declares a template, and otherwise propagates out of
\* web_server as NotImplementedError.
C7_UnimplementedVerb ==
    UnimplementedVerb =>
       IF LastHandler.template # << >>
       THEN /\ pc = "close"
            /\ ~last.raised
            /\ last.code = OK
            /\ last.template # << >>
            /\ last.body = last.template
       ELSE /\ pc = "crashed"
            /\ last.error = "NotImplementedError"

\* the handler returned a value and no template body is set
ReturnedPlain ==
    /\ Dispatched
    /\ last.entered
    /\ last.exc = NoError
    /\ last.template = << >>

IsTriple(x) == x.t = "tuple" /\ Len(x.v) = 3

\* C8: without a template, a (status, headers, body) result gives the
\* response its status, headers and body; a falsy result gives 501 Not
\* Implemented; any other result gives 200 with str(result) as body.
C8_ResultNormalized ==
    ReturnedPlain =>
       LET hr == last.handler_response IN
       IF IsTriple(hr)
       THEN ~last.raised =>
              /\ last.code = hr.v[1].v
              /\ last.body = (IF hr.v[3].t \in {"list", "dict"} THEN Dumps(hr.v[3]) ELSE hr.v[3].v)
              /\ \A k \in (DOMAIN hr.v[2].v) \ {ContentLength} : last.headers[k] = hr.v[2].v[k]
       ELSE /\ ~last.raised
            /\ pc = "close"
            /\ IF Truthy(hr) THEN last.code = OK /\ last.body = Str(hr)
               ELSE last.code = NOT_IMPLEMENTED

C8_Witness ==
    /\ pc = "close"
    /\ ReturnedPlain
    /\ last.handler_response = PNone
    /\ last.code = NOT_IMPLEMENTED

\* the number of bytes of a character in UTF-8
Utf8Bytes(c) == IF c = EAcute THEN 2 ELSE 1

\* len(bytes(text, encoding='UTF-8'))
RECURSIVE EncodedLength(_)
EncodedLength(text) ==
    IF text = << >> THEN 0 ELSE Utf8Bytes(Head(text)) + EncodedLength(Tail(text))

\* a response was written to the client
ResponseSent == last # NoDispatch /\ ~last.raised

\* C27: every response web_server sends carries a Content-Length equal to
\* the number of bytes of the body written, whatever the handler returned:
\* its own Content-Length, a list or dict body dumped to JSON, a body with
\* characters of more than one byte.
C27_ContentLengthIsBodyLength ==
    ResponseSent => last.headers[ContentLength] = PInt(EncodedLength(last.body))

\* the mapping restricted to the names of the parameters after the first
RemainingNames == {LastFunction.params[i].name : i \in 2..Len(LastFunction.params)}

OnlyRemaining(d) == [k \in (DOMAIN d) \cap RemainingNames |-> d[k]]

\* C9: a function handler gets the Request as first positional argument and
\* only its remaining named parameters are bound; a key of the mapping naming
\* no remaining parameter changes neither whether nor how the handler is called.
C9_ExtraKeysIgnored ==
    (/\ Dispatched
     /\ last.route # 0
     /\ LastHandler.kind = "function"
     /\ last.request.body.t = "dict")
    => /\ last.calls = Invoke(last.route, last.request,
                              OnlyRemaining(last.client_parameters), Returns(PNone)).calls
       /\ \A k \in 1..Len(last.calls) : last.calls[k].args = <<last.request>>

\* C10: a connection that yielded a parsed request gets exactly one response
\* and is closed before the next connection is read; no connection is parsed twice.
C10_OneResponseThenClose ==
    \A c \in 1..Len(conns) :
       /\ conns[c].parsed <= 1
       /\ conns[c].sent <= conns[c].parsed
       /\ (c < cur \/ pc = "poll") => (~conns[c].open /\ conns[c].sent = conns[c].parsed)
       /\ (c = cur /\ pc = "crashed" /\ HandlerRaised) => conns[c].sent = 1


\* ------------------------------ the synchronous loop, one read at a time
\* Bytes in flight are sequences of tokens: "L" stands for a request line
\* (GET / HTTP/1.1), "S" for the blank line that ends the header section,
\* "B" for body bytes and "X" for bytes that are no request line. Every
\* message is shorter than recv_all's buffer_size, so one recv returns
\* whatever has arrived.
MaxClients == 2
MaxInterrupts == 2

Wire == {<<"L", "S">>, <<"L", "S", "B">>, <<"X">>}

\* parse_http_request returns: the first row is a request line
\* (is_http_request) and the header/body separator is there (data.split)
Parses(d) ==
    /\ d # << >>
    /\ d[1] = "L"
    /\ \E i \in 1..Len(d) : d[i] = "S"

NewSocket == [open |-> TRUE, idle |-> FALSE, zero |-> FALSE, yielded |-> 0]

InitLoop ==
    /\ lpc = "select"
    /\ lconns = << >>
    /\ backlog = 0
    /\ peer = NoPeer
    /\ buf = << >>
    /\ data = << >>
    /\ interrupts = 0
    /\ WebOff /\ AsyncOff /\ PoolOff /\ ProcOff /\ ParseOff /\ MatchOff

lcur == Len(lconns)

\* a client connects to the listening socket
PeerConnect ==
    /\ lpc \notin {"ended", "raised"}
    /\ Len(lconns) + backlog < MaxClients
    /\ backlog' = backlog + 1
    /\ UNCHANGED <<lpc, lconns, peer, buf, data, interrupts>>
    /\ UNCHANGED <<webVars, asyncVars, poolVars, procVars, parseVars, matchVars>>

\* client_loop: select reports the listening socket, accept() is yielded and
\* http_client_request_loop enters recv_all (a poll that times out yields
\* None and changes nothing)
LoopAccept ==
    /\ lpc = "select"
    /\ backlog > 0
    /\ backlog' = backlog - 1
    /\ lconns' = Append(lconns, NewSocket)
    /\ \E m \in Wire : peer' = [msg |-> m, sent |-> 0, eof |-> FALSE]
    /\ buf' = << >>
    /\ data' = << >>
    /\ lpc' = "recv_select"
    /\ UNCHANGED interrupts
    /\ UNCHANGED <<webVars, asyncVars, poolVars, procVars, parseVars, matchVars>>

\* the client sends the next bytes of its message
PeerSend ==
    /\ lpc \in {"recv_select", "recv"}
    /\ ~peer.eof
    /\ \E k \in 1..(Len(peer.msg) - peer.sent) :
          /\ buf' = buf \o SubSeq(peer.msg, peer.sent + 1, peer.sent + k)
          /\ peer' = [peer EXCEPT !.sent = @ + k]
    /\ UNCHANGED <<lpc, lconns, backlog, data, interrupts>>
    /\ UNCHANGED <<webVars, asyncVars, poolVars, procVars, parseVars, matchVars>>

\* the client closes its side of the connection
PeerShutdown ==
    /\ lpc \in {"recv_select", "recv"}
    /\ ~peer.eof
    /\ peer' = [peer EXCEPT !.eof = TRUE]
    /\ UNCHANGED <<lpc, lconns, backlog, buf, data, interrupts>>
    /\ UNCHANGED <<webVars, asyncVars, poolVars, procVars, parseVars, matchVars>>

\* recv_all is left with `data`: http_client_request_loop parses and yields
\* non-empty data and goes on to client.close() otherwise
RecvAllReturned(timedOut) ==
    IF data = << >>
    THEN /\ lconns' = [lconns EXCEPT ![lcur].idle = @ \/ timedOut]
         /\ lpc' = "close"
    ELSE IF Parses(data)
    THEN /\ lconns' = [lconns EXCEPT ![lcur].yielded = @ + 1]
         /\ lpc' = "yielded"
    ELSE /\ lpc' = "raised"
         /\ UNCHANGED lconns

\* recv_all: select([sock], [], [], timeout) reports the socket when bytes
\* or the end of the stream are there, and is empty after the timeout
RecvAllSelect ==
    /\ lpc = "recv_select"
    /\ IF buf # << >> \/ peer.eof
       THEN lpc' = "recv" /\ UNCHANGED lconns
       ELSE RecvAllReturned(TRUE)
    /\ UNCHANGED <<backlog, peer, buf, data, interrupts>>
    /\ UNCHANGED <<webVars, asyncVars, poolVars, procVars, parseVars, matchVars>>

\* recv_all: data += recv(buffer_size); data_limit is None, the loop goes on
\* to the next select whatever was read
RecvAllRecv ==
    /\ lpc = "recv"
    /\ data' = data \o buf
    /\ buf' = << >>
    /\ lconns' = [lconns EXCEPT ![lcur].zero = @ \/ (buf = << >>)]
    /\ lpc' = "recv_select"
    /\ UNCHANGED <<backlog, peer, interrupts>>
    /\ UNCHANGED <<webVars, asyncVars, poolVars, procVars, parseVars, matchVars>>

\* the consumer of the generator is done with the yielded connection
LoopResume ==
    /\ lpc = "yielded"
    /\ lpc' = "close"
    /\ UNCHANGED <<lconns, backlog, peer, buf, data, interrupts>>
    /\ UNCHANGED <<webVars, asyncVars, poolVars, procVars, parseVars, matchVars>>

\* http_client_request_loop: client.close(), then the next poll
LoopClose ==
    /\ lpc = "close"
    /\ lconns' = [lconns EXCEPT ![lcur].open = FALSE]
    /\ peer' = NoPeer
    /\ buf' = << >>
    /\ data' = << >>
    /\ lpc' = "select"
    /\ UNCHANGED <<backlog, interrupts>>
    /\ UNCHANGED <<webVars, asyncVars, poolVars, procVars, parseVars, matchVars>>

\* KeyboardInterrupt inside client_loop's select: `except KeyboardInterrupt:
\* pass`, the generator returns and the loop is over
InterruptPoll ==
    /\ lpc = "select"
    /\ interrupts < MaxInterrupts
    /\ interrupts' = interrupts + 1
    /\ lpc' = "ended"
    /\ UNCHANGED <<lconns, backlog, peer, buf, data>>
    /\ UNCHANGED <<webVars, asyncVars, poolVars, procVars, parseVars, matchVars>>

\* KeyboardInterrupt inside recv_all: `except KeyboardInterrupt: pass`,
\* recv_all returns the data read so far to the loop
InterruptRecvAll ==
    /\ lpc \in {"recv_select", "recv"}
    /\ interrupts < MaxInterrupts
    /\ interrupts' = interrupts + 1
    /\ RecvAllReturned(FALSE)
    /\ UNCHANGED <<backlog, peer, buf, data>>
    /\ UNCHANGED <<webVars, asyncVars, poolVars, procVars, parseVars, matchVars>>

NextLoop ==
    \/ PeerConnect \/ LoopAccept \/ PeerSend \/ PeerShutdown
    \/ RecvAllSelect \/ RecvAllRecv \/ LoopResume \/ LoopClose
    \/ InterruptPoll \/ InterruptRecvAll

\* the loop is one thread that keeps running: each of its steps is taken
\* when it stays possible; clients and the operator are not obliged to act
SpecLoop ==
    /\ InitLoop /\ [][NextLoop]_vars
    /\ WF_vars(LoopAccept) /\ WF_vars(RecvAllSelect) /\ WF_vars(RecvAllRecv)
    /\ WF_vars(LoopResume) /\ WF_vars(LoopClose)

\* connection c gave an empty read: recv_all timed out with nothing read, or
\* a recv returned zero bytes
EmptyRead(c) ==
    /\ c <= Len(lconns)
    /\ lconns[c].idle \/ lconns[c].zero

\* connection c was closed by client.close(), after which the loop polls again
ClosedByLoop(c) ==
    /\ c <= Len(lconns)
    /\ ~lconns[c].open

\* C11: every accepted connection that yields an empty read (nothing sent
\* before the read timeout, or a read of zero bytes after the client closed
\* its side) is eventually closed by the loop, which goes on to poll again.
C11_EmptyReadIsClosed ==
    \A c \in 1..MaxClients :
       EmptyRead(c) ~> ClosedByLoop(c)

\* C16: once an operator interrupt has been delivered, in the poll or inside
\* recv_all, the loop produces no further connection and ends without an error.
C16_InterruptEndsLoop ==
    [][interrupts > 0 =>
          /\ Len(lconns') = Len(lconns)
          /\ (lpc' = "yielded" => lpc = "yielded")
          /\ lpc' # "raised"]_vars


\* --------------------------------------------- servers.AsyncHttpServer
\* The server is constructed with a small request_max_size and
\* request_buffer_size, counted in tokens of Wire.
MaxTasks == 2

request_max_size == 3
request_buffer_size == 2

\* what clients of the asynchronous server send: Wire and a request that is
\* longer than request_max_size
AsyncWire == Wire \cup {<<"L", "S", "B", "B">>}

\* request_handler of the constructor: None (the default lambda is used), a
\* function that returns the response bytes, a function that raises
Handlers == {"default", "returns", "raises"}

NewTask(m) ==
    [pc |-> "read", peer |-> [msg |-> m, sent |-> 0, eof |-> FALSE],
     buf |-> << >>, chunk |-> << >>, result |-> << >>, returned |-> "pending",
     oversize |-> FALSE, timedout |-> FALSE, zero |-> FALSE,
     parsed |-> 0, invoked |-> 0, written |-> 0, open |-> TRUE, error |-> ""]

InitAsync ==
    /\ handler \in Handlers
    /\ tasks = << >>
    /\ WebOff /\ LoopOff /\ PoolOff /\ ProcOff /\ ParseOff /\ MatchOff

\* start_server: a client connects and handle_client is started for it
AsyncAccept ==
    /\ Len(tasks) < MaxTasks
    /\ \E m \in AsyncWire : tasks' = Append(tasks, NewTask(m))
    /\ UNCHANGED handler
    /\ UNCHANGED <<webVars, loopVars, poolVars, procVars, parseVars, matchVars>>

\* the client of task t sends the next bytes of its message
AsyncPeerSend(t) ==
    /\ tasks[t].pc \in {"read", "got"}
    /\ ~tasks[t].peer.eof
    /\ \E k \in 1..(Len(tasks[t].peer.msg) - tasks[t].peer.sent) :
          tasks' = [tasks EXCEPT
             ![t].buf = @ \o SubSeq(tasks[t].peer.msg, tasks[t].peer.sent + 1,
                                    tasks[t].peer.sent + k),
             ![t].peer.sent = @ + k]
    /\ UNCHANGED handler
    /\ UNCHANGED <<webVars, loopVars, poolVars, procVars, parseVars, matchVars>>

\* the client of task t closes its sending side
AsyncPeerShutdown(t) ==
    /\ tasks[t].pc \in {"read", "got"}
    /\ ~tasks[t].peer.eof
    /\ tasks' = [tasks EXCEPT ![t].peer.eof = TRUE]
    /\ UNCHANGED handler
    /\ UNCHANGED <<webVars, loopVars, poolVars, procVars, parseVars, matchVars>>

Min(a, b) == IF a <= b THEN a ELSE b

\* handle_client once read_all has returned the non-empty `data`:
\* parse_http_request, request_handler(request), writer.write, up to the
\* suspension in writer.drain(); an exception ends the task
HandleData(task) ==
    IF ~Parses(task.result)
    THEN [task EXCEPT !.parsed = @ + 1, !.pc = "failed", !.error = "Exception"]
    ELSE IF handler = "default"
    THEN [task EXCEPT !.parsed = @ + 1, !.pc = "failed", !.error = "TypeError"]
    ELSE IF handler = "raises"
    THEN [task EXCEPT !.parsed = @ + 1, !.invoked = @ + 1,
                      !.pc = "failed", !.error = "RuntimeError"]
    ELSE [task EXCEPT !.parsed = @ + 1, !.invoked = @ + 1, !.written = @ + 1,
                      !.pc = "drain"]

\* read_all leaves its loop on TimeoutError and returns `result`;
\* handle_client closes the writer at once when it is empty
TimedOut(task) ==
    LET back == [task EXCEPT !.timedout = TRUE, !.returned = "result"] IN
    IF back.result = << >>
    THEN [back EXCEPT !.open = FALSE, !.pc = "closed"]
    ELSE HandleData(back)

\* read_all: await wait_for(reader.read(request_buffer_size), request_timeout)
\* gives the bytes that are there, b'' at the end of the stream, and
\* TimeoutError when nothing arrives in time
AwaitRead(t) ==
    /\ tasks[t].pc = "read"
    /\ LET task == tasks[t]
           n == Min(request_buffer_size, Len(task.buf)) IN
       tasks' = [tasks EXCEPT ![t] =
          IF task.buf # << >>
          THEN [task EXCEPT !.chunk = SubSeq(task.buf, 1, n),
                            !.buf = SubSeq(task.buf, n + 1, Len(task.buf)),
                            !.pc = "got"]
          ELSE IF task.peer.eof
          THEN [task EXCEPT !.chunk = << >>, !.zero = TRUE, !.pc = "got"]
          ELSE TimedOut(task)]
    /\ UNCHANGED handler
    /\ UNCHANGED <<webVars, loopVars, poolVars, procVars, parseVars, matchVars>>

FitsAlways(result, chunk) == TRUE

\* read_all: len(result) + len(data) <= self.request_max_size
Fits(result, chunk) == Len(result) + Len(chunk) <= request_max_size

\* read_all: the bytes read are appended and the next read is awaited, or
\* None is returned and handle_client goes straight to writer.close()
ReadAllStep(t) ==
    /\ tasks[t].pc = "got"
    /\ LET task == tasks[t] IN
       tasks' = [tasks EXCEPT ![t] =
          IF Fits(task.result, task.chunk)
          THEN [task EXCEPT !.result = @ \o task.chunk, !.chunk = << >>,
                            !.pc = "read"]
          ELSE [task EXCEPT !.oversize = TRUE, !.returned = "None",
                            !.open = FALSE, !.pc = "closed"]]
    /\ UNCHANGED handler
    /\ UNCHANGED <<webVars, loopVars, poolVars, procVars, parseVars, matchVars>>

\* handle_client: writer.drain() is over, writer.close()
Drain(t) ==
    /\ tasks[t].pc = "drain"
    /\ tasks' = [tasks EXCEPT ![t].open = FALSE, ![t].pc = "closed"]
    /\ UNCHANGED handler
    /\ UNCHANGED <<webVars, loopVars, poolVars, procVars, parseVars, matchVars>>

NextAsync ==
    \/ AsyncAccept
    \/ \E t \in 1..Len(tasks) : AsyncPeerSend(t)
    \/ \E t \in 1..Len(tasks) : AsyncPeerShutdown(t)
    \/ \E t \in 1..Len(tasks) : AwaitRead(t)
    \/ \E t \in 1..Len(tasks) : ReadAllStep(t)
    \/ \E t \in 1..Len(tasks) : Drain(t)

\* the event loop keeps running every task that can run
SpecAsync ==
    /\ InitAsync /\ [][NextAsync]_vars
    /\ \A t \in 1..MaxTasks :
          /\ WF_vars(t <= Len(tasks) /\ AwaitRead(t))
          /\ WF_vars(t <= Len(tasks) /\ ReadAllStep(t))
          /\ WF_vars(t <= Len(tasks) /\ Drain(t))

\* handle_client of connection t is over and has closed the writer
TaskClosed(t) ==
    /\ t <= Len(tasks)
    /\ tasks[t].pc = "closed"
    /\ ~tasks[t].open

\* C12: read_all terminates for every connection and handle_client then
\* closes the connection, also when the peer closes its sending side and
\* the read returns zero bytes.
C12_ReadAllTerminates ==
    \A t \in 1..MaxTasks : (t <= Len(tasks)) ~> TaskClosed(t)

\* C13: once the bytes read would exceed request_max_size the request is
\* never parsed, the handler never invoked, nothing is written and the
\* connection is closed; read_all returns no buffer above request_max_size.
C13_OversizeDropped ==
    \A t \in 1..Len(tasks) :
       /\ tasks[t].oversize =>
             /\ tasks[t].parsed = 0
             /\ tasks[t].invoked = 0
             /\ tasks[t].written = 0
             /\ tasks[t].returned = "None"
             /\ TaskClosed(t)
       /\ (tasks[t].pc = "got" /\ ~Fits(tasks[t].result, tasks[t].chunk)) =>
             tasks[t].parsed = 0 /\ tasks[t].written = 0
       /\ tasks[t].returned = "result" => Len(tasks[t].result) <= request_max_size
       /\ tasks[t].parsed > 0 => Len(tasks[t].result) <= request_max_size

\* a request of four tokens arrived at a server whose limit is three
C13_Witness ==
    \E t \in 1..Len(tasks) :
       /\ Len(tasks[t].peer.msg) > request_max_size
       /\ tasks[t].peer.sent = Len(tasks[t].peer.msg)
       /\ tasks[t].oversize
       /\ TaskClosed(t)

\* C14: when a read exceeds the idle timeout after some bytes were received,
\* the bytes received so far are the request: it is parsed once, the handler
\* is invoked once, the response is written and the connection is closed,
\* and the read is not retried.
C14_TimeoutCompletesRequest ==
    \A t \in 1..Len(tasks) :
       (tasks[t].timedout /\ tasks[t].result # << >>) =>
          /\ tasks[t].parsed = 1
          /\ tasks[t].invoked = 1
          /\ tasks[t].written = 1
          /\ tasks[t].pc \in {"drain", "closed"}
          /\ tasks[t].pc = "closed" => ~tasks[t].open


\* ------------------------------------- http_client_request_loop_async
MaxWorkers == 3

\* what _piped_process_recv_all sends through the pipe: recv_all's bytes,
\* b'' for a client that sent nothing
WorkerResults == Wire \cup {<< >>}

\* spawn_piped_process: the socket with its started worker
NewClient ==
    [open |-> TRUE, alive |-> TRUE, sent |-> FALSE, inpipe |-> FALSE,
     msg |-> << >>, yielded |-> 0, parsed |-> 0, eof |-> FALSE, blocked |-> FALSE]

InitPool ==
    /\ ppc = "select"
    /\ clients = << >>
    /\ idx = 0
    /\ pconns = << >>
    /\ pbacklog = 0
    /\ pinterrupts = 0
    /\ due = {}
    /\ WebOff /\ LoopOff /\ AsyncOff /\ ProcOff /\ ParseOff /\ MatchOff

\* a client connects to the listening socket
PoolConnect ==
    /\ ppc \notin {"ended", "raised", "interrupted"}
    /\ Len(pconns) + pbacklog < MaxWorkers
    /\ pbacklog' = pbacklog + 1
    /\ UNCHANGED <<ppc, clients, idx, pconns, pinterrupts, due>>
    /\ UNCHANGED <<webVars, loopVars, asyncVars, procVars, parseVars, matchVars>>

\* the client of connection c closes its sending side while the worker is
\* inside recv_all: from then on select reports the socket readable and
\* recv returns b'' at once, every time, and recv_all, called without a
\* data_limit (the caller's data_limit is handed over as buffer_size), loops
PoolPeerShutdown(c) ==
    /\ c \in 1..Len(pconns)
    /\ pconns[c].alive /\ ~pconns[c].sent /\ ~pconns[c].blocked
    /\ ~pconns[c].eof
    /\ pconns' = [pconns EXCEPT ![c].eof = TRUE]
    /\ UNCHANGED <<ppc, clients, idx, pbacklog, pinterrupts, due>>
    /\ UNCHANGED <<webVars, loopVars, asyncVars, procVars, parseVars, matchVars>>

\* the worker of connection c: recv_all has returned, pipe.send(data).
\* Data that fits into the pipe's buffer is written and send returns; with
\* more data (large) send waits until the owner reads from the pipe
WorkerSend(c) ==
    /\ c \in 1..Len(pconns)
    /\ pconns[c].alive
    /\ ~pconns[c].sent /\ ~pconns[c].blocked
    /\ ~pconns[c].eof
    /\ \E d \in WorkerResults, large \in BOOLEAN :
          /\ large => d # << >>
          /\ pconns' = [pconns EXCEPT ![c].sent = ~large, ![c].blocked = large,
                                       ![c].inpipe = TRUE, ![c].msg = d]
    /\ UNCHANGED <<ppc, clients, idx, pbacklog, pinterrupts, due>>
    /\ UNCHANGED <<webVars, loopVars, asyncVars, procVars, parseVars, matchVars>>

\* the worker process of connection c is over: its function returned, or it
\* died before sending
WorkerExit(c) ==
    /\ c \in 1..Len(pconns)
    /\ pconns[c].alive
    /\ ~pconns[c].blocked /\ ~pconns[c].eof
    /\ pconns' = [pconns EXCEPT ![c].alive = FALSE]
    /\ UNCHANGED <<ppc, clients, idx, pbacklog, pinterrupts, due>>
    /\ UNCHANGED <<webVars, loopVars, asyncVars, procVars, parseVars, matchVars>>

\* client_loop yields the accepted socket, for which a worker is spawned and
\* the pair appended to `clients`, or None after the poll timeout; the
\* iteration over `clients` starts
PoolTick ==
    /\ ppc = "select"
    /\ IF pbacklog > 0
       THEN /\ pbacklog' = pbacklog - 1
            /\ pconns' = Append(pconns, NewClient)
            /\ clients' = Append(clients, Len(pconns) + 1)
       ELSE UNCHANGED <<pbacklog, pconns, clients>>
    /\ idx' = 1
    /\ ppc' = "scan"
    /\ due' = {clients[i] : i \in {j \in 1..Len(clients) : ~pconns[clients[j]].alive}}
    /\ UNCHANGED pinterrupts
    /\ UNCHANGED <<webVars, loopVars, asyncVars, procVars, parseVars, matchVars>>

is_aliveNever(w) == FALSE

\* PipedProcess.is_alive of a started worker
is_alive(w) == w.alive

\* clients.remove((c, p)) while `for c, p in clients` stands at position i
RemoveAt(list, i) == SubSeq(list, 1, i - 1) \o SubSeq(list, i + 1, Len(list))

\* one step of `for c, p in clients`: a pair whose worker has exited is
\* asked for its data (try_recv: the message in the pipe, None when there is
\* none); non-empty data is parsed and yielded, otherwise the socket is
\* closed and the pair removed
PoolScan ==
    /\ ppc = "scan"
    /\ IF idx > Len(clients)
       THEN /\ ppc' = "select"
            /\ UNCHANGED <<clients, idx, pconns>>
       ELSE LET c == clients[idx] IN
            IF is_alive(pconns[c])
            THEN /\ idx' = idx + 1
                 /\ UNCHANGED <<ppc, clients, pconns>>
            ELSE IF pconns[c].inpipe /\ pconns[c].msg # << >>
            THEN IF Parses(pconns[c].msg)
                 THEN /\ pconns' = [pconns EXCEPT ![c].inpipe = FALSE,
                                       ![c].parsed = @ + 1, ![c].yielded = @ + 1]
                      /\ ppc' = "yielded"
                      /\ UNCHANGED <<clients, idx>>
                 ELSE /\ pconns' = [pconns EXCEPT ![c].inpipe = FALSE,
                                       ![c].parsed = @ + 1]
                      /\ ppc' = "raised"
                      /\ UNCHANGED <<clients, idx>>
            ELSE /\ pconns' = [pconns EXCEPT ![c].inpipe = FALSE, ![c].open = FALSE]
                 /\ clients' = RemoveAt(clients, idx)
                 /\ idx' = idx + 1
                 /\ UNCHANGED ppc
    /\ UNCHANGED <<pbacklog, pinterrupts, due>>
    /\ UNCHANGED <<webVars, loopVars, asyncVars, procVars, parseVars, matchVars>>

\* the consumer is done with the yielded pair: c.close(), clients.remove
PoolResume ==
    /\ ppc = "yielded"
    /\ pconns' = [pconns EXCEPT ![clients[idx]].open = FALSE]
    /\ clients' = RemoveAt(clients, idx)
    /\ idx' = idx + 1
    /\ ppc' = "scan"
    /\ UNCHANGED <<pbacklog, pinterrupts, due>>
    /\ UNCHANGED <<webVars, loopVars, asyncVars, procVars, parseVars, matchVars>>

\* KeyboardInterrupt inside client_loop's select: client_loop returns and
\* with it http_client_request_loop_async
PoolInterruptPoll ==
    /\ ppc = "select"
    /\ pinterrupts < MaxInterrupts
    /\ pinterrupts' = pinterrupts + 1
    /\ ppc' = "ended"
    /\ UNCHANGED <<clients, idx, pconns, pbacklog, due>>
    /\ UNCHANGED <<webVars, loopVars, asyncVars, procVars, parseVars, matchVars>>

\* KeyboardInterrupt while http_client_request_loop_async looks at its
\* workers: nothing catches it there
PoolInterruptScan ==
    /\ ppc = "scan"
    /\ pinterrupts < MaxInterrupts
    /\ pinterrupts' = pinterrupts + 1
    /\ ppc' = "interrupted"
    /\ UNCHANGED <<clients, idx, pconns, pbacklog, due>>
    /\ UNCHANGED <<webVars, loopVars, asyncVars, procVars, parseVars, matchVars>>

NextPool ==
    \/ PoolConnect
    \/ \E c \in 1..MaxWorkers : PoolPeerShutdown(c)
    \/ \E c \in 1..MaxWorkers : WorkerSend(c)
    \/ \E c \in 1..MaxWorkers : WorkerExit(c)
    \/ PoolTick \/ PoolScan \/ PoolResume
    \/ PoolInterruptPoll \/ PoolInterruptScan

\* the loop is one thread that keeps running, and so is every worker
\* process: a worker that can deliver or return does so
SpecPool ==
    /\ InitPool /\ [][NextPool]_vars
    /\ WF_vars(PoolTick) /\ WF_vars(PoolScan) /\ WF_vars(PoolResume)
    /\ \A c \in 1..MaxWorkers : WF_vars(WorkerSend(c)) /\ WF_vars(WorkerExit(c))

\* C15: a connection is yielded only after its worker has exited and a
\* non-empty result was received from it, and every accepted connection is
\* yielded and parsed at most once.
C15_YieldAfterWorkerExit ==
    \A c \in 1..Len(pconns) :
       /\ pconns[c].yielded <= 1
       /\ pconns[c].parsed <= 1
       /\ pconns[c].yielded > 0 =>
             /\ ~pconns[c].alive
             /\ pconns[c].sent
             /\ pconns[c].msg # << >>
             /\ ~pconns[c].inpipe

\* two connections were yielded, each once, and closed
C15_Witness ==
    /\ Len(pconns) >= 2
    /\ \A c \in 1..2 : pconns[c].yielded = 1 /\ ~pconns[c].open /\ ~pconns[c].alive

\* C17: when the loop is cancelled by an interrupt, every worker still
\* running is terminated and every accepted socket that was not yielded is
\* closed: after the loop has ended no worker is alive and no socket open.
C17_CancelCleansUp ==
    ppc \in {"ended", "interrupted"} =>
       \A c \in 1..Len(pconns) : ~pconns[c].alive /\ ~pconns[c].open

\* the pairs still in the list `clients`
Pending == {clients[i] : i \in 1..Len(clients)}

\* connection c was accepted, and it is closed and off the list
Accepted(c) == c \in 1..Len(pconns)
ClosedAndRemoved(c) == Accepted(c) /\ ~pconns[c].open /\ c \notin Pending

\* the loop has ended: by an interrupt or by an exception of the parser
PoolOver == ppc \in {"ended", "interrupted", "raised"}

\* C28: with fair scheduling of the loop's ticks and of the workers, every
\* accepted connection is eventually closed and removed from the pending
\* list, whatever amount of data its worker has to send back: the worker
\* waiting to deliver and the loop waiting for the worker's exit do not
\* block each other for ever.
C28_EveryConnectionIsClosed ==
    \A c \in 1..MaxWorkers : Accepted(c) ~> (ClosedAndRemoved(c) \/ PoolOver)

\* C29: every tick examines every pending pair: a pair whose worker had
\* exited when the tick began is handled in that tick, also when several
\* workers finished before the same tick; so when the tick is through none
\* of them is left on the list.
C29_TickHandlesEveryExited ==
    ppc = "select" => due \cap Pending = {}


\* ------------------------------------- sjpsmp.PipedProcess and its pool
\* A multiprocessing.Process is "created" (never started), "running",
\* "signalled" (terminate() or kill() was sent and the process has not died
\* yet) or "exited"; `closed` is set by Process.close(). `pipe` says that
\* the owner's end of the Pipe is open, `inpipe` that a message of the
\* worker waits in it.
MaxProcs == 2
MaxStarts == 3

\* create_piped_process
NewProc ==
    [state |-> "created", closed |-> FALSE, pipe |-> TRUE, starts |-> 0,
     sent |-> FALSE, inpipe |-> FALSE]

\* what a call gives back: the object afterwards, the exception raised ("" for
\* none) and the value returned
Done(p, raised, value) == [p |-> p, raised |-> raised, value |-> value]

\* Process.is_alive() of an object that is not closed
ProcessAlive(p) == p.state \in {"running", "signalled"}

\* PipedProcess.start: `if not self.process.is_alive(): self.process.start()`.
\* is_alive raises ValueError on a closed object; Process.start asserts that
\* the process was never started before
start(p) ==
    IF p.closed THEN Done(p, "ValueError", "")
    ELSE IF ProcessAlive(p) THEN Done(p, "", "None")
    ELSE IF p.state = "created"
    THEN Done([p EXCEPT !.starts = @ + 1, !.state = "running"], "", "None")
    ELSE Done([p EXCEPT !.starts = @ + 1], "AssertionError", "")

\* PipedProcess.join: Process.join(timeout) returns after the timeout or once
\* the process is over (blocking); it asserts that the process was started
join(p, blocking) ==
    IF p.closed THEN Done(p, "ValueError", "")
    ELSE IF p.state = "created" THEN Done(p, "AssertionError", "")
    ELSE IF blocking THEN Done([p EXCEPT !.state = "exited"], "", "None")
    ELSE Done(p, "", "None")

\* Process.terminate() and Process.kill(): self._popen is None before start
Signal(p) ==
    IF p.closed THEN Done(p, "ValueError", "")
    ELSE IF p.state = "created" THEN Done(p, "AttributeError", "")
    ELSE IF p.state = "running" THEN Done([p EXCEPT !.state = "signalled"], "", "None")
    ELSE Done(p, "", "None")

\* PipedProcess.kill
kill(p) == Signal(p)

\* PipedProcess.close: pipe.close(), then Process.close(), which raises
\* ValueError while the process is still running; `died` says that a
\* signalled process is gone by the time Process.close() looks
close(p, died) ==
    LET q == [p EXCEPT !.pipe = FALSE] IN
    IF q.state = "running" \/ (q.state = "signalled" /\ ~died)
    THEN Done(q, "ValueError", "")
    ELSE Done([q EXCEPT !.closed = TRUE,
                        !.state = IF @ = "signalled" THEN "exited" ELSE @], "", "None")

\* PipedProcess.quit: self.process.terminate(); self.kill(); self.close()
quit(p, died) ==
    LET t == Signal(p) IN
    IF t.raised # "" THEN t
    ELSE LET k == kill(t.p) IN
         IF k.raised # "" THEN k ELSE close(k.p, died)

\* PipedProcess.try_recv(default): poll() raises OSError on a closed
\* Connection, which `except Exception: raise` passes on; recv() gives the
\* waiting message, and raises EOFError, answered with default, when the
\* worker is gone and nothing waits
try_recv(p) ==
    IF ~p.pipe THEN Done(p, "OSError", "")
    ELSE IF p.inpipe THEN Done([p EXCEPT !.inpipe = FALSE], "", "value")
    ELSE Done(p, "", "default")

\* PipedProcess.send: Connection.send raises OSError on a closed Connection,
\* which `except Exception as e: raise e` passes on. The owner keeps the
\* worker's end of the Pipe inside Process(args=(client, ...)), so the write
\* succeeds whether the worker is running or gone
send(p) ==
    IF ~p.pipe THEN Done(p, "OSError", "") ELSE Done(p, "", "None")

\* what a call on every process of the pool gives back: the processes
\* afterwards and the exception that ended the loop ("" for none)
PoolDone(ps, raised) == [ps |-> ps, raised |-> raised]

\* PipedProcessPool.start(): `for p in self.processes.values(): p.start()`
RECURSIVE PoolStartFrom(_, _)
PoolStartFrom(ps, i) ==
    IF i > Len(ps) THEN PoolDone(ps, "")
    ELSE LET r == start(ps[i]) IN
         IF r.raised # "" THEN PoolDone([ps EXCEPT ![i] = r.p], r.raised)
         ELSE PoolStartFrom([ps EXCEPT ![i] = r.p], i + 1)

\* PipedProcessPool.quit(): `for p in self.processes.values(): p.quit()`;
\* died[i] says whether process i is gone when its close() looks
RECURSIVE PoolQuitFrom(_, _, _)
PoolQuitFrom(ps, i, died) ==
    IF i > Len(ps) THEN PoolDone(ps, "")
    ELSE LET r == quit(ps[i], died[i]) IN
         IF r.raised # "" THEN PoolDone([ps EXCEPT ![i] = r.p], r.raised)
         ELSE PoolQuitFrom([ps EXCEPT ![i] = r.p], i + 1, died)

\* PipedProcessPool.send(data): `for p in self.processes.values(): p.send(data)`
RECURSIVE PoolSendFrom(_, _)
PoolSendFrom(ps, i) ==
    IF i > Len(ps) THEN PoolDone(ps, "")
    ELSE LET r == send(ps[i]) IN
         IF r.raised # "" THEN PoolDone([ps EXCEPT ![i] = r.p], r.raised)
         ELSE PoolSendFrom([ps EXCEPT ![i] = r.p], i + 1)

InitProc ==
    /\ procs = [i \in 1..MaxProcs |-> NewProc]
    /\ called = NoCall
    /\ scope = "out"
    /\ WebOff /\ LoopOff /\ AsyncOff /\ PoolOff /\ ParseOff /\ MatchOff

\* a call on process i has given r
Call(op, i, r, had) ==
    /\ procs' = [procs EXCEPT ![i] = r.p]
    /\ called' = [op |-> op, id |-> i, raised |-> r.raised, value |-> r.value,
                  had |-> had, before |-> procs[i]]
    /\ UNCHANGED scope
    /\ UNCHANGED <<webVars, loopVars, asyncVars, poolVars, parseVars, matchVars>>

\* a call on the whole pool has given r
PoolCall(op, r) ==
    /\ procs' = r.ps
    /\ called' = [op |-> op, id |-> 0, raised |-> r.raised, value |-> "",
                  had |-> FALSE, before |-> procs]
    /\ UNCHANGED <<webVars, loopVars, asyncVars, poolVars, parseVars, matchVars>>

Start(i) ==
    /\ procs[i].starts < MaxStarts
    /\ Call("start", i, start(procs[i]), FALSE)

Join(i) == \E blocking \in BOOLEAN : Call("join", i, join(procs[i], blocking), FALSE)

Kill(i) == Call("kill", i, kill(procs[i]), FALSE)

Quit(i) == \E died \in BOOLEAN : Call("quit", i, quit(procs[i], died), FALSE)

TryRecv(i) == Call("try_recv", i, try_recv(procs[i]), procs[i].inpipe)

\* PipedProcess.send, and PipedProcessPool.send(data, identifier)
Send(i) == Call("send", i, send(procs[i]), FALSE)

\* PipedProcessPool.send(data)
PoolSend ==
    /\ PoolCall("pool.send", PoolSendFrom(procs, 1))
    /\ UNCHANGED scope

\* `with pool:` calls __enter__, which starts every process; when it raises
\* the body and __exit__ are skipped
PoolEnter ==
    /\ scope = "out"
    /\ \A i \in 1..MaxProcs : procs[i].starts < MaxStarts
    /\ LET r == PoolStartFrom(procs, 1) IN
          /\ PoolCall("__enter__", r)
          /\ scope' = IF r.raised = "" THEN "in" ELSE "out"

\* leaving the `with` block calls __exit__, which quits every process
PoolExit ==
    /\ scope = "in"
    /\ \E died \in [1..MaxProcs -> BOOLEAN] :
          PoolCall("__exit__", PoolQuitFrom(procs, 1, died))
    /\ scope' = "left"

\* the worker function sends its value through its end of the pipe
ProcSend(i) ==
    /\ procs[i].state = "running"
    /\ ~procs[i].sent
    /\ procs' = [procs EXCEPT ![i].sent = TRUE, ![i].inpipe = TRUE]
    /\ UNCHANGED <<called, scope>>
    /\ UNCHANGED <<webVars, loopVars, asyncVars, poolVars, parseVars, matchVars>>

\* the worker function returns, or the signalled process dies
ProcExit(i) ==
    /\ procs[i].state \in {"running", "signalled"}
    /\ procs' = [procs EXCEPT ![i].state = "exited"]
    /\ UNCHANGED <<called, scope>>
    /\ UNCHANGED <<webVars, loopVars, asyncVars, poolVars, parseVars, matchVars>>

NextProc ==
    \/ \E i \in 1..MaxProcs : Start(i)
    \/ \E i \in 1..MaxProcs : Join(i)
    \/ \E i \in 1..MaxProcs : Kill(i)
    \/ \E i \in 1..MaxProcs : Quit(i)
    \/ \E i \in 1..MaxProcs : TryRecv(i)
    \/ \E i \in 1..MaxProcs : Send(i)
    \/ PoolSend \/ PoolEnter \/ PoolExit
    \/ \E i \in 1..MaxProcs : ProcSend(i)
    \/ \E i \in 1..MaxProcs : ProcExit(i)

SpecProc == InitProc /\ [][NextProc]_vars

\* C18: whatever start, join, kill and quit calls are made, the underlying
\* process's start is invoked at most once: start on a running or finished
\* process does not start it again.
C18_StartAtMostOnce ==
    \A i \in 1..MaxProcs : procs[i].starts <= 1

\* C19: quit() is idempotent and safe in every state of the process
\* (running, already exited, a second time after a first quit): it does not
\* raise and leaves the process non-alive and the channel released.
C19_QuitIdempotent ==
    (called.op = "quit" /\ called.before.state # "created") =>
       /\ called.raised = ""
       /\ ~ProcessAlive(procs[called.id])
       /\ ~procs[called.id].pipe

\* C20: try_recv(default) never raises: it returns default when the worker
\* has not sent anything, when the peer is gone and when the channel has
\* been closed, and the worker's value once it is available.
C20_TryRecvNeverRaises ==
    called.op = "try_recv" =>
       /\ called.raised = ""
       /\ called.value = IF called.had /\ called.before.pipe THEN "value" ELSE "default"

\* C21: send(data) on a channel whose peer process has exited is a no-op: it
\* does not raise and leaves the channel as it was; the same holds for the
\* pool's targeted send and for its broadcast send.
C21_SendToExitedIsNoOp ==
    /\ (called.op = "send" /\ called.before.state = "exited") =>
          called.raised = "" /\ procs[called.id] = called.before
    /\ (called.op = "pool.send"
          /\ \A i \in 1..MaxProcs : called.before[i].state = "exited") =>
          called.raised = "" /\ procs = called.before

\* C22: a pool used as a scope (every process started on enter, every
\* process quit on exit) leaves no process of the pool alive once the scope
\* has been left, whatever state each channel was in.
C22_ScopeLeavesNoneAlive ==
    scope = "left" => \A i \in 1..MaxProcs : ~ProcessAlive(procs[i])


\* ---------------------------------------------- core.parse_http_request
\* The request is a sequence of characters (every byte of the model is
\* ASCII, so bytes.decode() changes nothing).
MaxHeaders == 2

CRLF == <<"\r", "\n">>

Whitespace == {" ", "\t", "\n", "\r", "\f"}

\* the position of the first occurrence of sep in s, 0 when there is none
Find(s, sep) ==
    LET at == {i \in 1..(Len(s) - Len(sep) + 1) : SubSeq(s, i, i + Len(sep) - 1) = sep}
    IN  IF at = {} THEN 0 ELSE CHOOSE i \in at : \A j \in at : i <= j

\* s.split(sep, 1)
SplitOnce(s, sep) ==
    LET i == Find(s, sep) IN
    IF i = 0 THEN <<s>>
    ELSE <<SubSeq(s, 1, i - 1), SubSeq(s, i + Len(sep), Len(s))>>

\* s.split(sep)
RECURSIVE SplitSeq(_, _)
SplitSeq(s, sep) ==
    LET i == Find(s, sep) IN
    IF i = 0 THEN <<s>>
    ELSE <<SubSeq(s, 1, i - 1)>> \o SplitSeq(SubSeq(s, i + Len(sep), Len(s)), sep)

\* length of the longest prefix of s without whitespace
RECURSIVE NonSpaceRun(_)
NonSpaceRun(s) ==
    IF s # << >> /\ Head(s) \notin Whitespace THEN 1 + NonSpaceRun(Tail(s)) ELSE 0

\* s.split(): the runs of characters between whitespace
RECURSIVE SplitWhitespace(_)
SplitWhitespace(s) ==
    IF s = << >> THEN << >>
    ELSE IF Head(s) \in Whitespace THEN SplitWhitespace(Tail(s))
    ELSE LET n == NonSpaceRun(s)
         IN  <<SubSeq(s, 1, n)>> \o SplitWhitespace(Drop(s, n))

UpperCase == <<"A", "B", "C", "D", "E", "F", "G", "H", "I", "J", "K", "L", "M", "N", "O", "P", "Q", "R", "S", "T", "U", "V", "W", "X", "Y", "Z">>
LowerCase == <<"a", "b", "c", "d", "e", "f", "g", "h", "i", "j", "k", "l", "m", "n", "o", "p", "q", "r", "s", "t", "u", "v", "w", "x", "y", "z">>

\* str.lower()
lower(s) ==
    [i \in 1..Len(s) |->
        IF \E u \in 1..26 : UpperCase[u] = s[i]
        THEN LowerCase[CHOOSE u \in 1..26 : UpperCase[u] = s[i]]
        ELSE s[i]]

\* urllib.parse.unquote_plus: '+' becomes a space; the model has no '%'
unquote_plus(s) == [i \in 1..Len(s) |-> IF s[i] = "+" THEN " " ELSE s[i]]

\* the alternatives of the regular expression's first group
RequestMethods == {<<"G", "E", "T">>, <<"P", "O", "S", "T">>, <<"P", "U", "T">>, <<"D", "E", "L", "E", "T", "E">>, <<"H", "E", "A", "D">>}

\* (HTTP\/\d\.\d) at the start of s
VersionMatches(s) ==
    /\ Len(s) >= 8
    /\ SubSeq(s, 1, 5) = <<"H", "T", "T", "P", "/">>
    /\ IsDigit(s[6]) /\ s[7] = "." /\ IsDigit(s[8])

\* \s([\/\w\S]+)\s(HTTP\/\d\.\d) at the start of s: the class matches every
\* character that is no whitespace, so the run it takes ends at the next
\* whitespace
TargetAndVersionMatch(s) ==
    /\ s # << >> /\ Head(s) \in Whitespace
    /\ LET n == NonSpaceRun(Tail(s)) IN
          /\ n >= 1
          /\ Len(s) > n + 1
          /\ VersionMatches(Drop(s, n + 2))

\* is_http_request(data): regex.match on the text before the first CRLF
is_http_request(d) ==
    LET header_row == SplitOnce(d, CRLF)[1] IN
    \E m \in RequestMethods :
       /\ StartsWith(header_row, m)
       /\ TargetAndVersionMatch(Drop(header_row, Len(m)))

\* what a parsing function gives: the dict and the exception raised
Parsed(r, error) == [r |-> r, error |-> error]

\* `for pair in ...: key, value = pair.split('=', 1); r[key] = value`;
\* skip says that empty pairs are passed over (`if pair:`)
RECURSIVE ParsePairs(_, _, _)
ParsePairs(pairs, r, skip) ==
    IF pairs = << >> THEN Parsed(r, NoError)
    ELSE IF skip /\ Head(pairs) = << >> THEN ParsePairs(Tail(pairs), r, skip)
    ELSE LET kv == SplitOnce(Head(pairs), <<"=">>) IN
         IF Len(kv) # 2 THEN Parsed(r, "ValueError")
         ELSE ParsePairs(Tail(pairs), Overlay(r, [k \in {kv[1]} |-> PStr(kv[2])]), skip)

\* parse_url_parameters(parameter_string)
parse_url_parameters(parameter_string) ==
    ParsePairs(SplitSeq(unquote_plus(parameter_string), <<"&">>), EmptyDict, FALSE)

\* parse_http_cookies(cookie_string)
parse_http_cookies(cookie_string) ==
    ParsePairs(SplitSeq(cookie_string, <<";", " ">>), EmptyDict, TRUE)

\* keys of the dict parse_http_headers returns
KeyMethod == <<"m", "e", "t", "h", "o", "d">>
KeyVersion == <<"h", "t", "t", "p", "_", "v", "e", "r", "s", "i", "o", "n">>
KeyPath == <<"p", "a", "t", "h">>
KeyParameters == <<"p", "a", "r", "a", "m", "e", "t", "e", "r", "s">>
KeyCookie == <<"c", "o", "o", "k", "i", "e">>
KeyBody == <<"b", "o", "d", "y">>

\* `for header in headers[1:]: key, value = header.split(': ', 1);
\* r[key.lower()] = value`
RECURSIVE ParseHeaderLines(_, _)
ParseHeaderLines(lines, r) ==
    IF lines = << >> THEN Parsed(r, NoError)
    ELSE LET kv == SplitOnce(Head(lines), <<":", " ">>) IN
         IF Len(kv) # 2 THEN Parsed(r, "ValueError")
         ELSE ParseHeaderLines(Tail(lines),
                               Overlay(r, [k \in {lower(kv[1])} |-> PStr(kv[2])]))

\* the start-line part of parse_http_headers: method, path, version and
\* parameters of `headers[0].split()`
ParseStartLine(line) ==
    LET words == SplitWhitespace(line) IN
    IF Len(words) # 3 THEN Parsed(EmptyDict, "ValueError")
    ELSE LET halves == SplitOnce(words[2], <<"?">>)
             parameters == IF Len(halves) = 2 THEN parse_url_parameters(halves[2])
                           ELSE Parsed(EmptyDict, NoError)
         IN  IF parameters.error # NoError THEN parameters
             ELSE Parsed((KeyMethod :> PStr(words[1])) @@ (KeyVersion :> PStr(words[3]))
                           @@ (KeyPath :> PStr(unquote_plus(halves[1])))
                           @@ (KeyParameters :> PDict(parameters.r)), NoError)

\* parse_http_headers(header_section)
parse_http_headers(header_section) ==
    LET headers == SplitSeq(header_section, CRLF)
        first == ParseStartLine(headers[1])
    IN  IF first.error # NoError THEN first
        ELSE LET all == ParseHeaderLines(Tail(headers), first.r) IN
             IF all.error # NoError \/ KeyCookie \notin DOMAIN all.r THEN all
             ELSE LET cookies == parse_http_cookies(all.r[KeyCookie].v) IN
                  IF cookies.error # NoError THEN cookies
                  ELSE Parsed(Overlay(all.r, [k \in {KeyCookie} |-> PDict(cookies.r)]), NoError)

\* parse_http_body(body_section, content_type): the bodies of the model are
\* empty or no JSON, and no request of the model declares a form, so the
\* result is the empty dict
parse_http_body(body_section) == PDict(EmptyDict)

\* parse_http_request(data)
parse_http_request(d) ==
    IF ~is_http_request(d) THEN Parsed(EmptyDict, "Exception")
    ELSE LET sections == SplitOnce(d, CRLF \o CRLF) IN
         IF Len(sections) # 2 THEN Parsed(EmptyDict, "ValueError")
         ELSE LET headers == parse_http_headers(sections[1]) IN
              IF headers.error # NoError THEN headers
              ELSE Parsed(Overlay(headers.r, [k \in {KeyBody} |-> parse_http_body(sections[2])]),
                          NoError)

\* the requests of the model: a method, the separator after it, the request
\* target, the version, header lines and what follows them
ParseMethods == RequestMethods \cup {<<"P", "A", "T", "C", "H">>}
Separators == {<<" ">>, <<" ", " ">>, <<"\t">>}
Targets == {<<"/">>, <<"/", "a">>, <<"/", "a", "?", "x", "=", "1">>, <<"/", "a", "+", "b">>}
Versions == {<<"H", "T", "T", "P", "/", "1", ".", "1">>, <<"H", "T", "T", "P", "/", "1", "1">>}
Header(name, sep, value) == [name |-> name, sep |-> sep, value |-> value]
HeaderLines ==
    {Header(<<"H", "o", "s", "t">>, <<":", " ">>, <<"x">>), Header(<<"H", "O", "S", "T">>, <<":", " ">>, <<"y">>),
     Header(<<"M", "e", "t", "h", "o", "d">>, <<":", " ">>, <<"P", "A", "T", "C", "H">>), Header(<<"C", "o", "o", "k", "i", "e">>, <<":", " ">>, <<"k", "=", "v">>),
     Header(<<"X">>, <<":">>, <<"y">>)}
Tails == {CRLF \o CRLF, CRLF \o CRLF \o <<"x">>, CRLF}

ParseRequests ==
    [method : ParseMethods, sep : Separators, target : Targets, version : Versions,
     headers : UNION {[1..n -> HeaderLines] : n \in 0..MaxHeaders}, tail : Tails]

RECURSIVE HeaderText(_)
HeaderText(headers) ==
    IF headers = << >> THEN << >>
    ELSE CRLF \o Head(headers).name \o Head(headers).sep \o Head(headers).value
         \o HeaderText(Tail(headers))

\* the bytes of a request
BuildRequest(q) ==
    q.method \o q.sep \o q.target \o <<" ">> \o q.version \o HeaderText(q.headers) \o q.tail

NotParsed == [done |-> FALSE, r |-> EmptyDict, error |-> NoError]

InitParse ==
    /\ preq \in ParseRequests
    /\ pdata = BuildRequest(preq)
    /\ presult = NotParsed
    /\ WebOff /\ LoopOff /\ AsyncOff /\ PoolOff /\ ProcOff /\ MatchOff

\* parse_http_request(data) is called
ParseRequest ==
    /\ ~presult.done
    /\ LET p == parse_http_request(pdata) IN
          presult' = [done |-> TRUE, r |-> p.r, error |-> p.error]
    /\ UNCHANGED <<preq, pdata>>
    /\ UNCHANGED <<webVars, loopVars, asyncVars, poolVars, procVars, matchVars>>

NextParse == ParseRequest

SpecParse == InitParse /\ [][NextParse]_vars

\* a request as the protocol wants it: a recognized method, single spaces,
\* a version, well-formed header lines and the blank line
ValidRequest(q) ==
    /\ q.method \in RequestMethods
    /\ q.sep = <<" ">>
    /\ q.version = <<"H", "T", "T", "P", "/", "1", ".", "1">>
    /\ \A i \in 1..Len(q.headers) : q.headers[i].sep = <<":", " ">>
    /\ StartsWith(q.tail, CRLF \o CRLF)

\* the path of a request target: what stands before '?'
TargetPath(q) == SplitOnce(q.target, <<"?">>)[1]

StartLineKeys == {KeyMethod, KeyPath, KeyVersion, KeyParameters}

\* C23: parsing a valid request built from a method, a path and headers
\* gives back the method and the path, has every header under its
\* lower-cased name with its value, and gives the same method, path, version
\* and query parameters as the request without its headers.
C23_ParseKeepsStartLine ==
    (presult.done /\ ValidRequest(preq)) =>
       /\ presult.error = NoError
       /\ presult.r[KeyMethod] = PStr(preq.method)
       /\ presult.r[KeyPath] = PStr(TargetPath(preq))
       /\ \A i \in 1..Len(preq.headers) :
             /\ lower(preq.headers[i].name) \in DOMAIN presult.r
             /\ presult.r[lower(preq.headers[i].name)] = PStr(preq.headers[i].value)
       /\ LET bare == parse_http_request(BuildRequest([preq EXCEPT !.headers = << >>]))
          IN  \A k \in StartLineKeys : presult.r[k] = bare.r[k]

\* the request begins with a start-line of a recognized method, a path and
\* an HTTP version
WellStarted(q) ==
    /\ q.method \in RequestMethods
    /\ Len(q.sep) = 1
    /\ q.version = <<"H", "T", "T", "P", "/", "1", ".", "1">>

\* C24: parse_http_request fails for every input that does not begin with a
\* start-line of a recognized method, a path and an HTTP version and for
\* every input without the blank line; the method of every accepted input
\* is one of GET, POST, PUT, DELETE, HEAD.
C24_RejectsWhatIsNoRequest ==
    presult.done =>
       /\ (~WellStarted(preq) \/ ~StartsWith(preq.tail, CRLF \o CRLF)) =>
             presult.error # NoError
       /\ presult.error = NoError => presult.r[KeyMethod].v \in RequestMethods


\* ------------------------------------- core.build_regex_url(url).match(path)
MaxSegments == 2

\* segments of the patterns and of the paths of the model
PatternSegments == {<<"a">>, <<"a", ".", "b">>, <<":", "x">>, <<":", "y">>}
PathSegments == {<<"a">>, <<"a", ".", "b">>, <<"a", "x", "b">>, <<"7">>, <<"a", "-", "b">>}

\* '/' + segment for every segment
RECURSIVE JoinSegments(_)
JoinSegments(segments) ==
    IF segments = << >> THEN << >>
    ELSE <<"/">> \o Head(segments) \o JoinSegments(Tail(segments))

\* route patterns: segments, with or without a closing '/', and the two
\* patterns of one character
MatchPatterns ==
    {JoinSegments(s) \o t :
        s \in UNION {[1..n -> PatternSegments] : n \in 1..MaxSegments},
        t \in {<< >>, <<"/">>}}
    \cup {<<"/">>, <<"a">>}

\* request paths: segments, followed by nothing, by '/' or by a newline
\* (the path of a request is percent-decoded, so '%0A' arrives as "\n")
MatchPaths ==
    {JoinSegments(s) \o t :
        s \in UNION {[1..n -> PathSegments] : n \in 0..MaxSegments},
        t \in {<< >>, <<"/">>, <<"\n">>}}

\* the names of the groups of a compiled pattern, in order
GroupNames(re) ==
    LET groups == SelectSeq(re, LAMBDA tok : tok.k = "var")
    IN  [i \in 1..Len(groups) |-> groups[i].a]

\* re.compile raises re.error for a group name that is no identifier and
\* for a name used twice
CompileFails(re) ==
    LET names == GroupNames(re) IN
    \/ \E i \in 1..Len(names) :
          \/ names[i] = << >>
          \/ IsDigit(names[i][1])
          \/ \E j \in 1..Len(names[i]) : names[i][j] \notin WordChars
    \/ \E i, j \in 1..Len(names) : i # j /\ names[i] = names[j]

NotMatched == [done |-> FALSE, error |-> NoError, ok |-> FALSE, groups |-> EmptyDict]

InitMatch ==
    /\ murl \in MatchPatterns
    /\ mpath \in MatchPaths
    /\ mresult = NotMatched
    /\ WebOff /\ LoopOff /\ AsyncOff /\ PoolOff /\ ProcOff /\ ParseOff

\* build_regex_url(url).match(path) is called
MatchPath ==
    /\ ~mresult.done
    /\ mresult' =
          IF CompileFails(build_regex_url(murl, ":"))
          THEN [done |-> TRUE, error |-> "re.error", ok |-> FALSE, groups |-> EmptyDict]
          ELSE LET m == Match(murl, mpath)
               IN  [done |-> TRUE, error |-> NoError, ok |-> m.ok, groups |-> m.groups]
    /\ UNCHANGED <<murl, mpath>>
    /\ UNCHANGED <<webVars, loopVars, asyncVars, poolVars, procVars, parseVars>>

NextMatch == MatchPath

SpecMatch == InitMatch /\ [][NextMatch]_vars

\* the segments of a pattern or of a path
Segments(s) == Split(s, "/")

IsVariable(segment) == StartsWith(segment, <<":">>)

\* a pattern of literal segments only
LiteralOnly(url) ==
    \A i \in 1..Len(Segments(url)) : ~IsVariable(Segments(url)[i])

\* C25: the matcher built from a path pattern of literal segments only
\* matches the exact literal path and no other path.
C25_LiteralMatchesExactly ==
    (mresult.done /\ LiteralOnly(murl)) =>
       /\ mresult.error = NoError
       /\ mresult.ok <=> (mpath = murl)

\* the variables of a pattern have different names
DistinctVariables(url) ==
    \A i, j \in 1..Len(Segments(url)) :
       (i # j /\ IsVariable(Segments(url)[i])) => Segments(url)[i] # Segments(url)[j]

\* one or more word characters
IsWord(s) == s # << >> /\ \A i \in 1..Len(s) : s[i] \in WordChars

\* the path has as many segments as the pattern, its literal segments are
\* equal and its variable segments are words
SegmentsAgree(url, p) ==
    /\ Len(Segments(url)) = Len(Segments(p))
    /\ \A i \in 1..Len(Segments(url)) :
          IF IsVariable(Segments(url)[i]) THEN IsWord(Segments(p)[i])
          ELSE Segments(url)[i] = Segments(p)[i]

\* the mapping of every variable of the pattern to its segment of the path
Bindings(url, p) ==
    LET at == {i \in 1..Len(Segments(url)) : IsVariable(Segments(url)[i])}
    IN  [name \in {Tail(Segments(url)[i]) : i \in at} |->
            PStr(Segments(p)[CHOOSE i \in at : Tail(Segments(url)[i]) = name])]

\* C26: a pattern with variable segments matches a path exactly when both
\* have the same number of segments, the literal segments are equal and
\* every variable segment is one or more word characters; the match maps
\* every variable name to its segment.
C26_VariableMatchesSegments ==
    (mresult.done /\ ~LiteralOnly(murl) /\ DistinctVariables(murl)) =>
       /\ mresult.error = NoError
       /\ mresult.ok <=> SegmentsAgree(murl, mpath)
       /\ mresult.ok => mresult.groups = Bindings(murl, mpath)

====
